---- MODULE Spec2Model ----
(***************************************************************************)
(* A model of streamlit_llamastack: the LlamaStackService class            *)
(* (service.py) with its lazily created client, agent and session, the     *)
(* turn-detail extraction of send_message_with_turn_details, and the       *)
(* Streamlit page handlers of app.py that drive the service.               *)
(*                                                                         *)
(* Python objects are records; an attribute an object does not have is a   *)
(* field outside the record's domain, so that getattr(obj, name, default)  *)
(* is a domain test.  Python dicts used as data (tool arguments) are sets  *)
(* of <<key, value>> pairs.  Python lists are sequences.                   *)
(***************************************************************************)
EXTENDS Integers, Sequences, FiniteSets, TLC

VARIABLES
    cache_resource,  \* st.cache_resource: base_url -> cached LlamaStackService
    backend,         \* the Llama Stack server: the objects it has created
    pc,              \* position inside send_message_with_turn_details
    turn,            \* the Turn returned by agent.create_turn
    i,               \* index (0-based, as enumerate) of the next step
    j,               \* number of tool responses of step i already handled
    turn_details,    \* the dict being built / returned
    last,            \* the last service call made and what it returned
    hist,            \* what get_session_id has returned since reset_session
    script,          \* the page the server runs: streamlit_llamastack/app.py
                     \* or the Ollama page app.py
    llama_stack_url, \* the text input for the URL (ollama_url on the Ollama page)
    cache_data,      \* st.cache_data: base_url -> cached list of model names
    session_state,   \* st.session_state
    available_models,\* app.py: the list the last run of the script loaded
    model_name,      \* app.py: the model the select box gave the last run
    threads,         \* script threads inside a method of the cached service
    browsers         \* browser sessions of one server: st.session_state and
                     \* the script variables of each

vars == <<cache_resource, backend, pc, turn, i, j, turn_details, last, hist,
          script, llama_stack_url, cache_data, session_state, available_models,
          model_name, threads, browsers>>

appVars == <<script, llama_stack_url, cache_data, session_state, available_models,
             model_name, threads, browsers>>

----------------------------------------------------------------------------
(* Bounds of the model.                                                    *)

MaxSteps == 3        \* steps in one Turn
MaxCalls == 2        \* tool calls in one inference step
MaxAgents == 2       \* agents the backend creates
MaxSessions == 2     \* sessions the backend creates
MaxCreateCalls == 2  \* calls of agent.create_session between two resets
MaxClients == 2      \* clients constructed
MaxMessages == 4     \* messages in st.session_state.messages

----------------------------------------------------------------------------
(* Python built-ins.                                                       *)

None == [py |-> "None"]

getattr(obj, name, default) ==
    IF name \in DOMAIN obj THEN obj[name] ELSE default

\* f"step_{i}"
DefaultStepId(n) == "step_" \o ToString(n)

Placeholder == "Sorry, I couldn't process your request properly."

EmptyDict == {}

----------------------------------------------------------------------------
(* The inputs: what agent.create_turn may return.                          *)
(*                                                                         *)
(* A tool execution step's field "raises" is not an attribute the code     *)
(* reads: it records how the step's tool_calls / tool_responses behave     *)
(* under Python:                                                           *)
(*   absent  they are lists;                                               *)
(*   "len"   one of them is a value len() raises TypeError on (None);      *)
(*   "iter"  tool_responses is a sized iterable whose iteration raises     *)
(*           after yielding the listed items.                              *)

TC1 == [tool_name |-> "websearch", arguments |-> {<<"q", "a">>}, call_id |-> "c1"]
TCbare == [tool_name |-> "calc"]

\* the tool calls of an inference step with n calls: c1, <no call_id>, c1, ...
CallList(n) == [k \in 1..n |-> IF k % 2 = 1 THEN TC1 ELSE TCbare]

R1 == [call_id |-> "c1", content |-> "out1", tool_name |-> "websearch"]
R2 == [call_id |-> "c2", content |-> "out2", tool_name |-> "lookup"]
Rbare == [content |-> "out3"]

UnknownSteps ==
    { [step_type |-> "shield_call", step_id |-> "sU"],
      [step_type |-> "memory_retrieval"],
      [step_id |-> "sV"] }

InferenceSteps ==
    { [step_type |-> "inference", step_id |-> "sN"],
      [step_type |-> "inference", step_id |-> "sA",
       api_model_response |->
           [content |-> "A", stop_reason |-> "end_of_turn", tool_calls |-> <<>>]],
      [step_type |-> "inference",
       api_model_response |-> [content |-> "B", tool_calls |-> <<>>]] }
    \cup
    { [step_type |-> "inference", step_id |-> "sC",
       api_model_response |->
           [content |-> IF n = 1 THEN "" ELSE "A",
            stop_reason |-> "end_of_turn", tool_calls |-> CallList(n)]]
      : n \in 1..MaxCalls }

ToolExecutionSteps ==
    { [step_type |-> "tool_execution",
       tool_calls |-> <<>>, tool_responses |-> <<R2>>],
      [step_type |-> "tool_execution", step_id |-> "sY",
       tool_responses |-> <<Rbare, R1>>],
      [step_type |-> "tool_execution", step_id |-> "sZ", raises |-> "len",
       tool_calls |-> <<TC1>>],
      [step_type |-> "tool_execution", step_id |-> "sW", raises |-> "iter",
       tool_responses |-> <<R2>>] }

Steps == {[step_type |-> "shield_call", step_id |-> "sU"]}
         \cup InferenceSteps \cup ToolExecutionSteps

StepSeqs == UNION { [1..n -> Steps] : n \in 0..MaxSteps }

Turns ==
    { [steps |-> s] : s \in StepSeqs }
    \cup
    { [steps |-> s, turn_id |-> "t1", status |-> "completed",
       created_at |-> "T0", completed_at |-> "T1"] :
      s \in { q \in StepSeqs : Len(q) <= 1 } }
    \cup
    { [status |-> "completed", id |-> "t2"] }

----------------------------------------------------------------------------
(* send_message_with_turn_details: the extraction, one step at a time.     *)

\* service.py 304-320: the first truthy attribute among possible_id_attrs,
\* else the id=... match in str(turn) (field "repr_id" when str(turn) has one)
possible_id_attrs == <<"id", "turn_id", "identifier", "uuid", "turn_uuid">>

TurnId(t) ==
    LET found == { k \in 1..Len(possible_id_attrs) : possible_id_attrs[k] \in DOMAIN t }
    IN  IF found # {}
        THEN t[possible_id_attrs[CHOOSE k \in found : \A m \in found : k <= m]]
        ELSE getattr(t, "repr_id", "unknown")

\* service.py 288-296 and 304-320
InitialTurnDetails(t) ==
    [success |-> TRUE,
     final_response |-> Placeholder,
     reasoning_steps |-> <<>>,
     tool_usage |-> <<>>,
     turn_id |-> TurnId(t),
     status |-> getattr(t, "status", "unknown")]

\* mutant of RequestedEntry: the arguments of the call are not carried over
RequestedEntryWithoutArguments(tool_call, step_id) ==
    [tool_name |-> getattr(tool_call, "tool_name", "unknown_tool"),
     arguments |-> EmptyDict,
     call_id |-> getattr(tool_call, "call_id", ""),
     step_id |-> step_id,
     status |-> "requested"]

\* service.py 362-368
RequestedEntry(tool_call, step_id) ==
    [tool_name |-> getattr(tool_call, "tool_name", "unknown_tool"),
     arguments |-> getattr(tool_call, "arguments", EmptyDict),
     call_id |-> getattr(tool_call, "call_id", ""),
     step_id |-> step_id,
     status |-> "requested"]

\* service.py 393-394: the index of the first entry with this call_id, 0 if none
FirstMatch(tool_usage, call_id) ==
    LET hits == { k \in 1..Len(tool_usage) : tool_usage[k].call_id = call_id }
    IN  IF hits = {} THEN 0 ELSE CHOOSE k \in hits : \A m \in hits : k <= m

\* mutant of CompletedInPlace: the entry is rebuilt from the response, without
\* the arguments of the call
CompletedInPlaceDropsArguments(entry, content, step_id) ==
    [tool_name |-> entry.tool_name,
     call_id |-> entry.call_id,
     output |-> content,
     step_id |-> step_id,
     status |-> "completed"]

\* service.py 395-397
CompletedInPlace(entry, content, step_id) ==
    ("output" :> content) @@ [entry EXCEPT !.status = "completed", !.step_id = step_id]

\* mutant of CompletedEntry: the entry of an unmatched response gets an
\* (empty) arguments field
CompletedEntryWithArguments(tool_name, call_id, content, step_id) ==
    [tool_name |-> tool_name,
     arguments |-> EmptyDict,
     call_id |-> call_id,
     output |-> content,
     step_id |-> step_id,
     status |-> "completed"]

\* service.py 402-408
CompletedEntry(tool_name, call_id, content, step_id) ==
    [tool_name |-> tool_name,
     call_id |-> call_id,
     output |-> content,
     step_id |-> step_id,
     status |-> "completed"]

\* mutant of ApplyResponse: the response is appended without looking for the
\* entry of its call
ApplyResponseAlwaysAppends(tool_usage, tool_response, step_id) ==
    Append(tool_usage,
           CompletedEntry(getattr(tool_response, "tool_name", "unknown_tool"),
                          getattr(tool_response, "call_id", ""),
                          getattr(tool_response, "content", ""),
                          step_id))

\* service.py 387-408: one tool response
ApplyResponse(tool_usage, tool_response, step_id) ==
    LET call_id == getattr(tool_response, "call_id", "")
        content == getattr(tool_response, "content", "")
        tool_name == getattr(tool_response, "tool_name", "unknown_tool")
        k == FirstMatch(tool_usage, call_id)
    IN  IF k # 0
        THEN [tool_usage EXCEPT ![k] = CompletedInPlace(@, content, step_id)]
        ELSE Append(tool_usage, CompletedEntry(tool_name, call_id, content, step_id))

RECURSIVE ApplyResponses(_, _, _)
ApplyResponses(tool_usage, tool_responses, step_id) ==
    IF tool_responses = <<>>
    THEN tool_usage
    ELSE ApplyResponses(ApplyResponse(tool_usage, Head(tool_responses), step_id),
                        Tail(tool_responses), step_id)

\* service.py 346-368: the reasoning entry and the requested entries of an
\* inference step that has tool calls
AppendToolCalls(td, tool_calls, stop_reason, step_id) ==
    [td EXCEPT
       !.reasoning_steps = Append(@,
           [type |-> "inference",
            content |-> "Assistant decided to use tools. Stop reason: " \o stop_reason,
            step_id |-> step_id,
            tool_calls |-> Len(tool_calls)]),
       !.tool_usage = @ \o
           [k \in 1..Len(tool_calls) |-> RequestedEntry(tool_calls[k], step_id)]]

\* mutant of SetFinalResponse: the first answer is kept, later ones only logged
SetFinalResponseKeepsFirst(td, content, stop_reason, step_id) ==
    [td EXCEPT
       !.final_response = IF @ = Placeholder THEN content ELSE @,
       !.reasoning_steps = Append(@,
           [type |-> "final_response",
            content |-> "Final response generated. Stop reason: " \o stop_reason,
            step_id |-> step_id])]

\* service.py 371-377
SetFinalResponse(td, content, stop_reason, step_id) ==
    [td EXCEPT
       !.final_response = content,
       !.reasoning_steps = Append(@,
           [type |-> "final_response",
            content |-> "Final response generated. Stop reason: " \o stop_reason,
            step_id |-> step_id])]

\* service.py 336-377: an inference step; the result is the dict and whether
\* an exception left the step
InferenceStep(td, step, step_id) ==
    IF "api_model_response" \notin DOMAIN step
    THEN [td |-> td, raised |-> FALSE]
    ELSE
    LET api_model_response == step.api_model_response
        content == getattr(api_model_response, "content", "")
        stop_reason == getattr(api_model_response, "stop_reason", "")
        tool_calls == getattr(api_model_response, "tool_calls", <<>>)
    IN  IF tool_calls # <<>>
        THEN [td |-> AppendToolCalls(td, tool_calls, stop_reason, step_id),
              raised |-> FALSE]
        ELSE IF content # ""
             THEN [td |-> SetFinalResponse(td, content, stop_reason, step_id),
                   raised |-> FALSE]
             ELSE [td |-> td, raised |-> FALSE]

\* service.py 379-408: a tool execution step
ToolExecutionStep(td, step, step_id) ==
    LET tool_responses == getattr(step, "tool_responses", <<>>)
        fault == getattr(step, "raises", "no")
    IN  IF fault = "len"
        THEN [td |-> td, raised |-> TRUE]
        ELSE [td |-> [td EXCEPT !.tool_usage =
                                    ApplyResponses(@, tool_responses, step_id)],
              raised |-> fault = "iter"]

\* mutant of ProcessStep: a step of unknown type is an error
ProcessStepUnknownRaises(td, step, n) ==
    LET step_type == getattr(step, "step_type", "unknown")
        step_id == getattr(step, "step_id", DefaultStepId(n))
    IN  IF step_type = "inference" THEN InferenceStep(td, step, step_id)
        ELSE IF step_type = "tool_execution" THEN ToolExecutionStep(td, step, step_id)
        ELSE [td |-> td, raised |-> TRUE]

\* service.py 330-408: the body of the loop for steps[n] (n counted from 0)
ProcessStep(td, step, n) ==
    LET step_type == getattr(step, "step_type", "unknown")
        step_id == getattr(step, "step_id", DefaultStepId(n))
    IN  IF step_type = "inference" THEN InferenceStep(td, step, step_id)
        ELSE IF step_type = "tool_execution" THEN ToolExecutionStep(td, step, step_id)
        ELSE [td |-> td, raised |-> FALSE]

\* mutant of ExtractError: the entries collected so far are dropped
ExtractErrorDropsPartial(td) ==
    ("error" :> "extract_error")
    @@ [td EXCEPT !.success = FALSE, !.reasoning_steps = <<>>, !.tool_usage = <<>>]

\* mutant of ExtractError: final_response is put back to the placeholder
ExtractErrorResetsFinalResponse(td) ==
    ("error" :> "extract_error")
    @@ [td EXCEPT !.success = FALSE, !.final_response = Placeholder]

\* mutant of ExtractError: the text of the exception is not stored
ExtractErrorWithoutText(td) == [td EXCEPT !.success = FALSE]

\* service.py 414-417
ExtractError(td) ==
    ("error" :> "extract_error") @@ [td EXCEPT !.success = FALSE]

\* service.py 410-412
WithMetadata(td, t) ==
    ("created_at" :> getattr(t, "created_at", None))
    @@ ("completed_at" :> getattr(t, "completed_at", None))
    @@ td

\* service.py 322-420: the whole extraction from step n on
RECURSIVE ExtractFrom(_, _, _)
ExtractFrom(td, t, n) ==
    LET steps == getattr(t, "steps", <<>>)
    IN  IF n >= Len(steps)
        THEN WithMetadata(td, t)
        ELSE LET r == ProcessStep(td, steps[n + 1], n)
             IN  IF r.raised THEN ExtractError(r.td) ELSE ExtractFrom(r.td, t, n + 1)

Extract(t) == ExtractFrom(InitialTurnDetails(t), t, 0)

----------------------------------------------------------------------------
(* The backend and the LlamaStackService object.                           *)
(*                                                                         *)
(* A service is the record of its attributes.  Every method is an operator *)
(* from the service, the backend and the call's inputs to a record         *)
(*   [svc, be, raised, value, log]:                                        *)
(* the service and backend afterwards, whether an exception left the       *)
(* method, the value returned (the exception's text when raised) and the   *)
(* backend calls made, in order.  "fail" names the backend call that       *)
(* throws during this method, if it is reached.                            *)

Failures == {"none", "client", "agent", "session", "turn", "models"}

Models == {"m1", "m2"}

DefaultUrl == "http://localhost:8321"

\* the two pages of the repository
LlamaStackPage == "streamlit_llamastack/app.py"
OllamaPage == "app.py"

\* the element of a set of one element.  A result that is used more than
\* once is bound as x in Only({ f(x) : x \in {e} }), to be evaluated once.
Only(S) == CHOOSE x \in S : TRUE

\* service.py 16-26
NewService(base_url) ==
    [base_url |-> base_url, _client |-> None, _agent |-> None, _session_id |-> None]

NoBackendCalls == <<>>

\* mutant of client: the client that failed to construct is kept
ClientCachesFailure(svc, be, fail) ==
    IF svc._client = None
    THEN IF fail = "client"
         THEN [svc |-> [svc EXCEPT !._client = [client |-> 0, base_url |-> svc.base_url]],
               be |-> be,
               raised |-> TRUE, value |-> "client", log |-> <<"LlamaStackClient">>]
         ELSE LET c == [client |-> be.clients + 1, base_url |-> svc.base_url]
              IN  [svc |-> [svc EXCEPT !._client = c],
                   be |-> [be EXCEPT !.clients = @ + 1],
                   raised |-> FALSE, value |-> c, log |-> <<"LlamaStackClient">>]
    ELSE [svc |-> svc, be |-> be, raised |-> FALSE, value |-> svc._client,
          log |-> NoBackendCalls]

\* service.py 28-43
client(svc, be, fail) ==
    IF svc._client = None
    THEN IF fail = "client"
         THEN [svc |-> svc, be |-> be,
               raised |-> TRUE, value |-> "client", log |-> <<"LlamaStackClient">>]
         ELSE LET c == [client |-> be.clients + 1, base_url |-> svc.base_url]
              IN  [svc |-> [svc EXCEPT !._client = c],
                   be |-> [be EXCEPT !.clients = @ + 1],
                   raised |-> FALSE, value |-> c, log |-> <<"LlamaStackClient">>]
    ELSE [svc |-> svc, be |-> be, raised |-> FALSE, value |-> svc._client,
          log |-> NoBackendCalls]

\* mutant of get_agent: an agent bound to another model is replaced
GetAgentFollowsModel(svc, be, model_id, fail) ==
    IF svc._agent = None \/ svc._agent.model # model_id
    THEN LET c == client(svc, be, fail)
         IN  IF c.raised THEN c
             ELSE IF fail = "agent"
             THEN [c EXCEPT !.raised = TRUE, !.value = "agent",
                            !.log = Append(@, "ReActAgent")]
             ELSE LET a == [agent |-> Cardinality(c.be.agents) + 1,
                            model |-> model_id, client |-> c.value]
                  IN  [svc |-> [c.svc EXCEPT !._agent = a],
                       be |-> [c.be EXCEPT !.agents = @ \cup {a}],
                       raised |-> FALSE, value |-> a,
                       log |-> Append(c.log, "ReActAgent")]
    ELSE [svc |-> svc, be |-> be, raised |-> FALSE, value |-> svc._agent,
          log |-> NoBackendCalls]

\* service.py 145-172
get_agent(svc, be, model_id, fail) ==
    IF svc._agent = None
    THEN LET c == client(svc, be, fail)
         IN  IF c.raised THEN c
             ELSE IF fail = "agent"
             THEN [c EXCEPT !.raised = TRUE, !.value = "agent",
                            !.log = Append(@, "ReActAgent")]
             ELSE LET a == [agent |-> Cardinality(c.be.agents) + 1,
                            model |-> model_id, client |-> c.value]
                  IN  [svc |-> [c.svc EXCEPT !._agent = a],
                       be |-> [c.be EXCEPT !.agents = @ \cup {a}],
                       raised |-> FALSE, value |-> a,
                       log |-> Append(c.log, "ReActAgent")]
    ELSE [svc |-> svc, be |-> be, raised |-> FALSE, value |-> svc._agent,
          log |-> NoBackendCalls]

\* service.py 188-189: str(session_id) of the n-th session the backend creates
SessionIdString(n) == [str |-> "session-" \o ToString(n)]

\* mutant of get_session_id: the cached id is not looked at
GetSessionIdAlwaysCreates(svc, be, model_id, fail) ==
    LET a == get_agent(svc, be, model_id, fail)
    IN  IF a.raised THEN a
        ELSE IF fail = "session"
        THEN [a EXCEPT !.raised = TRUE, !.value = "session",
                       !.log = Append(@, "create_session")]
        ELSE LET sid == SessionIdString(a.be.sessions + 1)
             IN  [svc |-> [a.svc EXCEPT !._session_id = sid],
                  be |-> [a.be EXCEPT !.sessions = @ + 1],
                  raised |-> FALSE, value |-> sid,
                  log |-> Append(a.log, "create_session")]

\* service.py 174-197
get_session_id(svc, be, model_id, fail) ==
    IF svc._session_id = None
    THEN LET a == get_agent(svc, be, model_id, fail)
         IN  IF a.raised THEN a
             ELSE IF fail = "session"
             THEN [a EXCEPT !.raised = TRUE, !.value = "session",
                            !.log = Append(@, "create_session")]
             ELSE LET sid == SessionIdString(a.be.sessions + 1)
                  IN  [svc |-> [a.svc EXCEPT !._session_id = sid],
                       be |-> [a.be EXCEPT !.sessions = @ + 1],
                       raised |-> FALSE, value |-> sid,
                       log |-> Append(a.log, "create_session")]
    ELSE [svc |-> svc, be |-> be, raised |-> FALSE, value |-> svc._session_id,
          log |-> NoBackendCalls]

\* mutant of reset_session: the agent is dropped with the session
ResetSessionDropsAgent(svc) == [svc EXCEPT !._session_id = None, !._agent = None]

\* service.py 434-437
reset_session(svc) == [svc EXCEPT !._session_id = None]

\* mutant of CreateTurn: a failed agent.create_turn is called a second time
CreateTurnRetries(svc, be, model_id, fail, t) ==
    Only({ IF a.raised THEN a
           ELSE Only({ IF s.raised THEN [s EXCEPT !.log = a.log \o @]
                       ELSE IF fail = "turn"
                       THEN ("create_turn" :> [agent |-> a.value, session_id |-> s.value])
                            @@ [s EXCEPT !.raised = TRUE, !.value = "turn",
                                         !.log = a.log \o @
                                                 \o <<"create_turn", "create_turn">>]
                       ELSE ("create_turn" :> [agent |-> a.value, session_id |-> s.value])
                            @@ [s EXCEPT !.value = t,
                                         !.log = a.log \o @ \o <<"create_turn">>]
                       : s \in {get_session_id(a.svc, a.be, model_id, fail)} })
           : a \in {get_agent(svc, be, model_id, fail)} })

\* service.py 278-285: get_agent, get_session_id, agent.create_turn; the field
\* create_turn of the result is the agent whose create_turn was called and
\* the session_id passed to it, and is absent when it was not called
CreateTurn(svc, be, model_id, fail, t) ==
    Only({ IF a.raised THEN a
           ELSE Only({ IF s.raised THEN [s EXCEPT !.log = a.log \o @]
                       ELSE IF fail = "turn"
                       THEN ("create_turn" :> [agent |-> a.value, session_id |-> s.value])
                            @@ [s EXCEPT !.raised = TRUE, !.value = "turn",
                                         !.log = a.log \o @ \o <<"create_turn">>]
                       ELSE ("create_turn" :> [agent |-> a.value, session_id |-> s.value])
                            @@ [s EXCEPT !.value = t,
                                         !.log = a.log \o @ \o <<"create_turn">>]
                       : s \in {get_session_id(a.svc, a.be, model_id, fail)} })
           : a \in {get_agent(svc, be, model_id, fail)} })

\* service.py 422-432
CommunicationError(e) ==
    [success |-> FALSE,
     error |-> "Error communicating with ReActAgent: " \o e,
     final_response |-> "[x] Error communicating with ReActAgent: " \o e,
     reasoning_steps |-> <<>>,
     tool_usage |-> <<>>,
     turn_id |-> "error",
     status |-> "error"]

\* service.py 258-432, the whole method
send_message_with_turn_details(svc, be, model_id, fail, t) ==
    Only({ IF r.raised
           THEN [r EXCEPT !.raised = FALSE, !.value = CommunicationError(r.value)]
           ELSE [r EXCEPT !.value = Extract(t)]
           : r \in {CreateTurn(svc, be, model_id, fail, t)} })

\* service.py 229-249: the text send_message takes from the Turn
ResponseText(t) ==
    IF "output_message" \in DOMAIN t
    THEN IF "content" \in DOMAIN t.output_message
         THEN t.output_message.content
         ELSE "No content in response"
    ELSE "No output message in response: <turn>"

\* service.py 199-256, the whole method
send_message(svc, be, model_id, fail, t) ==
    LET r == CreateTurn(svc, be, model_id, fail, t)
    IN  IF r.raised
        THEN [r EXCEPT !.raised = FALSE,
                       !.value = "[x] Error communicating with ReActAgent: " \o r.value]
        ELSE [r EXCEPT !.value = ResponseText(t)]

\* what client.models.list() may return
LlmModel == [identifier |-> "m1", model_type |-> "llm"]
EmbeddingModel == [identifier |-> "emb", model_type |-> "embedding"]
UntypedModel == [id |-> "m2"]
ModelsResponses == { <<>>, <<EmbeddingModel, LlmModel, UntypedModel>> }

\* service.py 66-99: the name of one model, <<>> when it is no LLM or when
\* looking at it raises (the except clause of the loop skips it)
ModelNames(model) ==
    IF "raises" \in DOMAIN model THEN <<>>
    ELSE IF "model_type" \in DOMAIN model /\ model.model_type # "llm" THEN <<>>
    ELSE IF "identifier" \in DOMAIN model THEN <<model.identifier>>
    ELSE IF "id" \in DOMAIN model THEN <<model.id>>
    ELSE IF "name" \in DOMAIN model THEN <<model.name>>
    ELSE <<"<model>">>

\* service.py 60-102
RECURSIVE ExtractModels(_)
ExtractModels(models_response) ==
    IF models_response = <<>> THEN <<>>
    ELSE ModelNames(Head(models_response)) \o ExtractModels(Tail(models_response))

\* service.py 54 and 117: self.client.models.list()
ListModels(svc, be, fail, models_response) ==
    LET c == client(svc, be, fail)
    IN  IF c.raised THEN c
        ELSE IF fail = "models"
        THEN [c EXCEPT !.raised = TRUE, !.value = "models", !.log = Append(@, "models.list")]
        ELSE [c EXCEPT !.value = models_response, !.log = Append(@, "models.list")]

\* mutant of get_available_models: the exception is not caught
GetAvailableModelsRaises(svc, be, fail, models_response) ==
    LET r == ListModels(svc, be, fail, models_response)
    IN  IF r.raised
        THEN r
        ELSE [r EXCEPT !.value = ExtractModels(models_response)]

\* service.py 45-106
get_available_models(svc, be, fail, models_response) ==
    LET r == ListModels(svc, be, fail, models_response)
    IN  IF r.raised
        THEN [r EXCEPT !.raised = FALSE, !.value = <<>>]
        ELSE [r EXCEPT !.value = ExtractModels(models_response)]

\* service.py 108-124
test_connection(svc, be, fail, models_response) ==
    LET r == ListModels(svc, be, fail, models_response)
    IN  [r EXCEPT !.raised = FALSE, !.value = ~r.raised]

----------------------------------------------------------------------------
(* SpecNorm: one call of send_message_with_turn_details on a new service,  *)
(* followed step by step through the extraction loop.                      *)

NewBackend == [clients |-> 0, agents |-> {}, sessions |-> 0]

\* the backend stays within the bounds of the model
Bounded(be) ==
    /\ Cardinality(be.agents) <= MaxAgents
    /\ be.sessions <= MaxSessions
    /\ be.clients <= MaxClients

\* hist, all of it counted from the last reset_session (or the construction):
\*   returned  the id get_session_id returned last (None: it has not returned)
\*   same      every id get_session_id returned was the same
\*   calls     the calls of agent.create_session
\*   created   the calls of agent.create_session that succeeded
\*   late      the calls of agent.create_session made with a session id cached
\*   retired   the ids get_session_id returned before the last reset_session
NoHistory ==
    [returned |-> None, same |-> TRUE, calls |-> 0, created |-> 0, late |-> 0,
     retired |-> {}]

NoCall == [op |-> "none"]

\* a cache, or st.session_state, without entries
Cleared == [key \in {} |-> None]

InitNorm ==
    /\ cache_resource = (DefaultUrl :> NewService(DefaultUrl))
    /\ backend = NewBackend
    /\ pc = "idle"
    /\ turn = None
    /\ i = 0
    /\ j = 0
    /\ turn_details = None
    /\ last = NoCall
    /\ hist = NoHistory
    /\ script = LlamaStackPage
    /\ llama_stack_url = DefaultUrl
    /\ cache_data = Cleared
    /\ session_state = Cleared
    /\ available_models = <<>>
    /\ model_name = None
    /\ threads = Cleared
    /\ browsers = Cleared

\* service.py 272-320
NormBegin ==
    /\ pc = "idle"
    /\ \E model_id \in Models, fail \in Failures \ {"models"}, t \in Turns :
         LET r == CreateTurn(cache_resource[DefaultUrl], backend, model_id, fail, t)
         IN  /\ Bounded(r.be)
             /\ cache_resource' = [cache_resource EXCEPT ![DefaultUrl] = r.svc]
             /\ backend' = r.be
             /\ last' = [op |-> "send_message_with_turn_details", raised |-> FALSE,
                         log |-> r.log]
             /\ IF r.raised
                THEN /\ pc' = "returned"
                     /\ turn_details' = CommunicationError(r.value)
                     /\ UNCHANGED turn
                ELSE /\ pc' = "steps"
                     /\ turn' = t
                     /\ turn_details' = InitialTurnDetails(t)
    /\ UNCHANGED <<i, j, hist, appVars>>

CurrentStep == turn.steps[i + 1]
CurrentStepId == getattr(CurrentStep, "step_id", DefaultStepId(i))
AtStep == pc = "steps" /\ i < Len(getattr(turn, "steps", <<>>))

\* service.py 330-377 and 414-417: one iteration of the loop over the steps,
\* for a step that is no tool execution
NormStep ==
    /\ AtStep
    /\ getattr(CurrentStep, "step_type", "unknown") # "tool_execution"
    /\ LET r == ProcessStep(turn_details, CurrentStep, i)
       IN  IF r.raised
           THEN /\ turn_details' = ExtractError(r.td)
                /\ pc' = "returned"
                /\ UNCHANGED i
           ELSE /\ turn_details' = r.td
                /\ i' = i + 1
                /\ UNCHANGED pc
    /\ UNCHANGED <<cache_resource, backend, turn, j, last, hist, appVars>>

\* service.py 379-384: entering a tool execution step; len() of its
\* collections is taken for the log line
NormToolExecution ==
    /\ AtStep
    /\ getattr(CurrentStep, "step_type", "unknown") = "tool_execution"
    /\ IF getattr(CurrentStep, "raises", "no") = "len"
       THEN /\ turn_details' = ExtractError(turn_details)
            /\ pc' = "returned"
       ELSE /\ pc' = "responses"
            /\ UNCHANGED turn_details
    /\ j' = 0
    /\ UNCHANGED <<cache_resource, backend, turn, i, last, hist, appVars>>

CurrentResponses == getattr(CurrentStep, "tool_responses", <<>>)
AtResponse == pc = "responses" /\ j < Len(CurrentResponses)
CurrentResponse == CurrentResponses[j + 1]

\* service.py 387-408: one iteration of the loop over the tool responses
NormResponse ==
    /\ AtResponse
    /\ turn_details' = [turn_details EXCEPT !.tool_usage =
                            ApplyResponse(@, CurrentResponse, CurrentStepId)]
    /\ j' = j + 1
    /\ UNCHANGED <<cache_resource, backend, pc, turn, i, last, hist, appVars>>

\* service.py 387: the loop over the tool responses ends (or its iterator raises)
NormResponsesEnd ==
    /\ pc = "responses"
    /\ j >= Len(CurrentResponses)
    /\ IF getattr(CurrentStep, "raises", "no") = "iter"
       THEN /\ turn_details' = ExtractError(turn_details)
            /\ pc' = "returned"
            /\ UNCHANGED i
       ELSE /\ pc' = "steps"
            /\ i' = i + 1
            /\ UNCHANGED turn_details
    /\ UNCHANGED <<cache_resource, backend, turn, j, last, hist, appVars>>

\* service.py 410-412 and 419-420
NormFinish ==
    /\ pc = "steps"
    /\ i >= Len(getattr(turn, "steps", <<>>))
    /\ turn_details' = WithMetadata(turn_details, turn)
    /\ pc' = "returned"
    /\ UNCHANGED <<cache_resource, backend, turn, i, j, last, hist, appVars>>

NextNorm ==
    \/ NormBegin
    \/ NormStep
    \/ NormToolExecution
    \/ NormResponse
    \/ NormResponsesEnd
    \/ NormFinish

SpecNorm == InitNorm /\ [][NextNorm]_vars

----------------------------------------------------------------------------
(* SpecService: the methods of one LlamaStackService called in any order.  *)

\* Turns for the specifications that take the extraction as a whole: a turn
\* with a tool call, its execution and an answer; a turn whose extraction
\* fails behind an answer; a turn without steps.
AnsweredTurn ==
    [steps |-> << [step_type |-> "inference", step_id |-> "sC",
                   api_model_response |->
                       [content |-> "", stop_reason |-> "end_of_turn",
                        tool_calls |-> CallList(1)]],
                  [step_type |-> "tool_execution", step_id |-> "sX",
                   tool_calls |-> CallList(1), tool_responses |-> <<R1>>],
                  [step_type |-> "inference", step_id |-> "sA",
                   api_model_response |->
                       [content |-> "A", stop_reason |-> "end_of_turn",
                        tool_calls |-> <<>>]] >>,
     turn_id |-> "t1", status |-> "completed",
     created_at |-> "T0", completed_at |-> "T1",
     output_message |-> [content |-> "A"]]

BrokenTurn ==
    [steps |-> << [step_type |-> "inference", step_id |-> "sA",
                   api_model_response |->
                       [content |-> "A", stop_reason |-> "end_of_turn",
                        tool_calls |-> <<>>]],
                  [step_type |-> "tool_execution", step_id |-> "sZ",
                   raises |-> "len", tool_calls |-> <<TC1>>] >>,
     turn_id |-> "t2", status |-> "completed",
     created_at |-> "T0", completed_at |-> "T1"]

EmptyTurn == [steps |-> <<>>]

ServiceTurns == {AnsweredTurn, BrokenTurn, EmptyTurn}

Count(log, call) == Cardinality({ k \in DOMAIN log : log[k] = call })

\* the record of a call
Call(op, r) ==
    [op |-> op, raised |-> r.raised, value |-> r.value, log |-> r.log,
     create_turn |-> getattr(r, "create_turn", None)]

\* a method has run with result r, in which get_session_id returned sid
\* (None if it was not called or raised)
Observe(h, svc, be, r, sid) ==
    [h EXCEPT !.calls = @ + Count(r.log, "create_session"),
              !.late = @ + (IF svc._session_id = None THEN 0
                            ELSE Count(r.log, "create_session")),
              !.created = @ + (r.be.sessions - be.sessions),
              !.returned = IF sid = None THEN @ ELSE sid,
              !.same = @ /\ (sid = None \/ h.returned = None \/ sid = h.returned)]

\* reset_session has run
ObserveReset(h) ==
    [h EXCEPT !.calls = 0,
              !.created = 0,
              !.late = 0,
              !.returned = None,
              !.same = TRUE,
              !.retired = @ \cup (IF h.returned = None THEN {} ELSE {h.returned})]

\* what get_session_id returned inside CreateTurn
SessionIdIn(r) == IF ~r.raised \/ r.value = "turn" THEN r.svc._session_id ELSE None

TheService == cache_resource[DefaultUrl]

normVars == <<pc, turn, i, j, turn_details>>

InitService == InitNorm

Returns(op, r, sid) ==
    /\ Bounded(r.be)
    /\ cache_resource' = [cache_resource EXCEPT ![DefaultUrl] = r.svc]
    /\ backend' = r.be
    /\ last' = Call(op, r)
    /\ hist' = Observe(hist, TheService, backend, r, sid)
    /\ hist'.calls <= MaxCreateCalls
    /\ UNCHANGED <<normVars, appVars>>

SvcClient ==
    \E fail \in Failures :
        Returns("client", client(TheService, backend, fail), None)

SvcGetAvailableModels ==
    \E fail \in Failures, models_response \in ModelsResponses :
        Returns("get_available_models",
                get_available_models(TheService, backend, fail, models_response), None)

SvcTestConnection ==
    \E fail \in Failures, models_response \in ModelsResponses :
        Returns("test_connection",
                test_connection(TheService, backend, fail, models_response), None)

SvcGetAgent ==
    \E fail \in Failures, model_id \in Models :
        Returns("get_agent", get_agent(TheService, backend, model_id, fail), None)

SvcGetSessionId ==
    \E fail \in Failures, model_id \in Models :
        LET r == get_session_id(TheService, backend, model_id, fail)
        IN  Returns("get_session_id", r, IF r.raised THEN None ELSE r.value)

SvcSendMessage ==
    \E fail \in Failures, model_id \in Models, t \in ServiceTurns :
        Returns("send_message",
                send_message(TheService, backend, model_id, fail, t),
                SessionIdIn(CreateTurn(TheService, backend, model_id, fail, t)))

SvcSendMessageWithTurnDetails ==
    \E fail \in Failures, model_id \in Models, t \in ServiceTurns :
        Returns("send_message_with_turn_details",
                send_message_with_turn_details(TheService, backend, model_id, fail, t),
                SessionIdIn(CreateTurn(TheService, backend, model_id, fail, t)))

SvcResetSession ==
    /\ cache_resource' = [cache_resource EXCEPT ![DefaultUrl] = reset_session(@)]
    /\ last' = [op |-> "reset_session", raised |-> FALSE, value |-> None,
                log |-> NoBackendCalls]
    /\ hist' = ObserveReset(hist)
    /\ UNCHANGED <<backend, normVars, appVars>>

NextService ==
    \/ SvcClient
    \/ SvcGetAvailableModels
    \/ SvcTestConnection
    \/ SvcGetAgent
    \/ SvcGetSessionId
    \/ SvcSendMessage
    \/ SvcSendMessageWithTurnDetails
    \/ SvcResetSession

SpecService == InitService /\ [][NextService]_vars

----------------------------------------------------------------------------
(* SpecModels: the three functions that list the models, each called with  *)
(* what its backend may answer: get_available_models of service.py and of  *)
(* llama_stack_service.py, and get_ollama_models of the Ollama page.       *)

MaxModels == 3       \* models in one answer of the backend

NamedModel == [name |-> "m3"]
OpaqueModel == [object |-> "<model>"]
BrokenModel == [raises |-> "getattr"]
ModelObjects ==
    {LlmModel, EmbeddingModel, UntypedModel, NamedModel, OpaqueModel, BrokenModel}

RECURSIVE SeqsUpTo(_, _)
SeqsUpTo(S, n) ==
    IF n = 0 THEN {<<>>}
    ELSE LET shorter == SeqsUpTo(S, n - 1)
         IN  shorter \cup { Append(q, x) : q \in shorter, x \in S }

ModelLists == SeqsUpTo(ModelObjects, MaxModels)

\* llama_stack_service.py 60-88: the name of one model
llama_stack_service_ModelNames(model) ==
    IF "raises" \in DOMAIN model THEN <<>>
    ELSE IF "identifier" \in DOMAIN model THEN <<model.identifier>>
    ELSE IF "id" \in DOMAIN model THEN <<model.id>>
    ELSE IF "name" \in DOMAIN model THEN <<model.name>>
    ELSE <<"<model>">>

\* llama_stack_service.py 58-91
RECURSIVE llama_stack_service_ExtractModels(_)
llama_stack_service_ExtractModels(models_response) ==
    IF models_response = <<>> THEN <<>>
    ELSE llama_stack_service_ModelNames(Head(models_response))
         \o llama_stack_service_ExtractModels(Tail(models_response))

\* llama_stack_service.py 43-95; the client property (31-41) and
\* self.client.models.list() are those of service.py
llama_stack_service_get_available_models(svc, be, fail, models_response) ==
    LET r == ListModels(svc, be, fail, models_response)
    IN  IF r.raised
        THEN [r EXCEPT !.raised = FALSE, !.value = <<>>]
        ELSE [r EXCEPT !.value = llama_stack_service_ExtractModels(models_response)]

\* what GET /api/tags of Ollama may give: the request fails, the status is
\* an error, the body is no JSON, or the body is data
OllamaFailures == {"connection", "timeout", "http", "json"}
OllamaModels == { [name |-> "m1"], [name |-> "m2"], [model |-> "m3"] }
OllamaData ==
    {Cleared} \cup { [models |-> q] : q \in SeqsUpTo(OllamaModels, MaxModels) }
OllamaTags ==
    { [fail |-> fail, data |-> Cleared] : fail \in OllamaFailures }
    \cup { [fail |-> "none", data |-> d] : d \in OllamaData }

\* app.py 36-46 (Ollama page)
get_ollama_models(tags) ==
    IF tags.fail # "none" THEN <<>>
    ELSE LET models == getattr(tags.data, "models", <<>>)
         IN  IF \E k \in DOMAIN models : "name" \notin DOMAIN models[k]
             THEN <<>>
             ELSE [k \in DOMAIN models |-> models[k].name]

\* a function has listed the models: what the backend did and what came back
Listed(op, fail, answer, raised, value) ==
    /\ last' = [op |-> op, fail |-> fail, answer |-> answer, raised |-> raised,
                value |-> value]
    /\ UNCHANGED <<normVars, hist, appVars>>

\* each function is called once, on a new service
ListsModels ==
    /\ last = NoCall
    /\ \E fail \in {"none", "client", "models"}, models_response \in ModelLists :
        LET r == get_available_models(TheService, backend, fail,
                                      IF fail = "none" THEN models_response ELSE <<>>)
        IN  /\ Bounded(r.be)
            /\ cache_resource' = [cache_resource EXCEPT ![DefaultUrl] = r.svc]
            /\ backend' = r.be
            /\ Listed("service.get_available_models", fail, models_response,
                      r.raised, r.value)

ListsModelsOfInference ==
    /\ last = NoCall
    /\ \E fail \in {"none", "client", "models"}, models_response \in ModelLists :
        LET r == llama_stack_service_get_available_models(
                     TheService, backend, fail,
                     IF fail = "none" THEN models_response ELSE <<>>)
        IN  /\ Bounded(r.be)
            /\ cache_resource' = [cache_resource EXCEPT ![DefaultUrl] = r.svc]
            /\ backend' = r.be
            /\ Listed("llama_stack_service.get_available_models", fail,
                      models_response, r.raised, r.value)

ListsModelsOfOllama ==
    /\ last = NoCall
    /\ \E tags \in OllamaTags :
        /\ Listed("get_ollama_models", tags.fail, tags.data, FALSE,
                  get_ollama_models(tags))
        /\ UNCHANGED <<cache_resource, backend>>

InitModels == InitNorm

NextModels ==
    \/ ListsModels
    \/ ListsModelsOfInference
    \/ ListsModelsOfOllama

SpecModels == InitModels /\ [][NextModels]_vars

----------------------------------------------------------------------------
(* SpecApp: the Streamlit page of app.py.  A widget event runs the script  *)
(* from its top: the models are loaded (lines 29-95) and then the handler  *)
(* of the widget runs; st.rerun() ends the run and runs the script once    *)
(* more without an event.  One browser session is modelled, and the URL    *)
(* field keeps its default value.  Time passes between two runs, not       *)
(* within one; st.cache_data keeps with each entry how old it is.  The     *)
(* server runs either this page or the Ollama page app.py, whose handlers  *)
(* follow those of streamlit_llamastack/app.py below.                      *)

\* the state of the process as one record, for the operators below.
\* turn_details is the variable of the chat handler, which other runs of the
\* script do not have; fetches counts the runs of get_available_models.
Process ==
    [llama_stack_url |-> llama_stack_url, cache_resource |-> cache_resource,
     cache_data |-> cache_data, backend |-> backend,
     session_state |-> session_state, available_models |-> available_models,
     model_name |-> model_name, turn_details |-> None, fetches |-> 0]

\* app.py 37-40
get_llama_stack_service(p, base_url) ==
    IF base_url \in DOMAIN p.cache_resource THEN p
    ELSE [p EXCEPT !.cache_resource = @ @@ (base_url :> NewService(base_url))]

\* the cached service has run a method with result r
ServiceCall(p, r) ==
    [p EXCEPT !.cache_resource[p.llama_stack_url] = r.svc, !.backend = r.be]

\* app.py 44: the seconds an entry of st.cache_data is served
TTL == 30

\* a cache that still serves an entry that is TTL seconds old
CachedAtTTL(p, base_url) ==
    /\ base_url \in DOMAIN p.cache_data
    /\ p.cache_data[base_url].age <= TTL

\* st.cache_data serves the entry of base_url while it is younger than TTL
Cached(p, base_url) ==
    /\ base_url \in DOMAIN p.cache_data
    /\ p.cache_data[base_url].age < TTL

\* app.py 43-48
get_llama_stack_models(p, in) ==
    LET base_url == p.llama_stack_url
    IN  IF Cached(p, base_url) THEN p
        ELSE LET q == get_llama_stack_service(p, base_url)
                 r == get_available_models(q.cache_resource[base_url], q.backend,
                                           in.fail, in.models_response)
             IN  [ServiceCall(q, r) EXCEPT
                      !.cache_data = (base_url :> [value |-> r.value, age |-> 0]) @@ @,
                      !.fetches = @ + 1]

\* app.py 58-60: a select box without key keeps the choice while its options
\* are the same and starts from index 0 when they change
selectbox(options, before, chosen) ==
    IF options = before /\ chosen # None THEN chosen ELSE [str |-> options[1]]

\* app.py 29-95: the script down to the chat history
LoadPage(p, in) ==
    LET q == get_llama_stack_models(p, in)
        loaded == q.cache_data[q.llama_stack_url].value
    IN  [q EXCEPT !.available_models = loaded,
                  !.model_name = IF loaded # <<>>
                                 THEN selectbox(loaded, p.available_models,
                                                p.model_name)
                                 ELSE None,
                  !.session_state = IF "messages" \in DOMAIN @ THEN @
                                    ELSE [messages |-> <<>>]]

\* what the backend may do when the models are listed: fail, or answer
ModelsLoads ==
    { [fail |-> fail, models_response |-> <<>>] : fail \in {"client", "models"} }
    \cup { [fail |-> "none", models_response |-> r] : r \in ModelsResponses }
NotLoaded == [fail |-> "none", models_response |-> <<>>]

\* the backend is asked only when st.cache_data does not serve the URL
LoadInputs(p) ==
    IF Cached(p, p.llama_stack_url) THEN {NotLoaded} ELSE ModelsLoads

\* the runs of the script without an event (v, the value of p, is bound so
\* that TLC evaluates p once)
Rerun(p) == UNION { { LoadPage(v, in) : in \in LoadInputs(v) } : v \in {p} }

\* app.py 178-188
UnexpectedError(e) ==
    [success |-> FALSE,
     error |-> "[x] Unexpected error: " \o e,
     final_response |-> "[x] Unexpected error: " \o e,
     reasoning_steps |-> <<>>,
     tool_usage |-> <<>>,
     turn_id |-> "error",
     status |-> "error"]

\* app.py 172-188; fail = "unexpected": an exception reaches the except
\* clause of the function
call_llama_stack_with_details(p, model, fail, t) ==
    IF fail = "unexpected"
    THEN [p |-> p, value |-> UnexpectedError("unexpected")]
    ELSE Only({ Only({ [p |-> ServiceCall(q, r), value |-> r.value]
                       : r \in {send_message_with_turn_details(
                                    q.cache_resource[q.llama_stack_url], q.backend,
                                    model, fail, t)} })
                : q \in {get_llama_stack_service(p, p.llama_stack_url)} })

\* app.py 297-305
TurnInfo(td) ==
    [turn_id |-> td.turn_id,
     status |-> td.status,
     reasoning_steps |-> td.reasoning_steps,
     tool_usage |-> td.tool_usage,
     final_response |-> td.final_response,
     created_at |-> getattr(td, "created_at", None),
     completed_at |-> getattr(td, "completed_at", None)]

\* app.py 245-320: the message stored for a turn
AssistantMessage(td) ==
    IF td.success
    THEN [role |-> "assistant", content |-> td.final_response,
          turn_details |-> TurnInfo(td)]
    ELSE [role |-> "assistant",
          content |-> "[x] Error: " \o getattr(td, "error", "Unknown error occurred")]

Prompt == "prompt"

\* what the backend may do when a message is sent: fail, or answer with a Turn
Replies ==
    { [fail |-> fail, turn |-> EmptyTurn]
        : fail \in (Failures \ {"none", "models"}) \cup {"unexpected"} }
    \cup { [fail |-> "none", turn |-> t] : t \in {AnsweredTurn, BrokenTurn} }

\* a chat handler that keeps the messages of the last turn only
ChatInputStartsOver(p, fail, t) ==
    Only({ [c.p EXCEPT !.turn_details = c.value,
                       !.session_state.messages =
                           <<[role |-> "user", content |-> Prompt],
                             AssistantMessage(c.value)>>]
           : c \in {call_llama_stack_with_details(p, p.model_name.str, fail, t)} })

\* a chat handler that stores no message for a turn that failed
ChatInputSkipsFailedTurn(p, fail, t) ==
    LET asked == [p EXCEPT !.session_state.messages =
                               Append(@, [role |-> "user", content |-> Prompt])]
    IN  Only({ [c.p EXCEPT !.turn_details = c.value,
                           !.session_state.messages =
                               IF c.value.success
                               THEN Append(@, AssistantMessage(c.value))
                               ELSE @]
               : c \in {call_llama_stack_with_details(asked, p.model_name.str,
                                                      fail, t)} })

\* app.py 235
ChatInputAsks(p) ==
    [p EXCEPT !.session_state.messages =
                  Append(@, [role |-> "user", content |-> Prompt])]

\* app.py 238-320, for a process that has appended the user message
ChatInputAnswers(asked, fail, t) ==
    Only({ [c.p EXCEPT !.turn_details = c.value,
                       !.session_state.messages =
                           Append(@, AssistantMessage(c.value))]
           : c \in {call_llama_stack_with_details(asked, asked.model_name.str,
                                                  fail, t)} })

\* app.py 235-320
ChatInput(p, fail, t) == ChatInputAnswers(ChatInputAsks(p), fail, t)

\* the variables after a run of streamlit_llamastack/app.py that left the
\* process as p.  last names the
\* handler that has ended the run with st.rerun(), "script" when there was
\* none, and tells how often the model list was fetched; turn_details is
\* what the chat handler has got.
Leaves(op, p) ==
    /\ script = LlamaStackPage
    /\ Bounded(p.backend)
    /\ llama_stack_url' = p.llama_stack_url
    /\ cache_resource' = p.cache_resource
    /\ cache_data' = p.cache_data
    /\ backend' = p.backend
    /\ session_state' = p.session_state
    /\ available_models' = p.available_models
    /\ model_name' = p.model_name
    /\ turn_details' = p.turn_details
    /\ last' = [op |-> op, fetches |-> p.fetches]
    /\ UNCHANGED <<turn, i, j, hist, script, threads, browsers>>

\* a run that has come to its end
Commit(op, p) == Leaves(op, p) /\ UNCHANGED pc

\* app.py 29-33 (Ollama page): the default of the URL field
OllamaUrl == "http://localhost:11434"

InitApp ==
    /\ cache_resource = Cleared
    /\ backend = NewBackend
    /\ pc = "idle"
    /\ turn = None
    /\ i = 0
    /\ j = 0
    /\ turn_details = None
    /\ last = NoCall
    /\ hist = NoHistory
    /\ script \in {LlamaStackPage, OllamaPage}
    /\ llama_stack_url = IF script = LlamaStackPage THEN DefaultUrl ELSE OllamaUrl
    /\ cache_data = Cleared
    /\ session_state = Cleared
    /\ available_models = <<>>
    /\ model_name = None
    /\ threads = Cleared
    /\ browsers = Cleared

\* the page is opened, or a widget without handler is used
ScriptRun ==
    \E p \in Rerun(Process) : Commit("script", p)

\* app.py 58-60: another model is chosen
ModelSelect ==
    \E k \in DOMAIN available_models :
        /\ model_name # [str |-> available_models[k]]
        /\ \E p \in Rerun([Process EXCEPT !.model_name = [str |-> available_models[k]]]) :
               Commit("script", p)

\* app.py 195-198 and 209-217
TestConnectionButton ==
    \E p \in Rerun(Process), fail \in {"none", "client", "models"} :
        LET q == get_llama_stack_service(p, p.llama_stack_url)
            r == test_connection(q.cache_resource[q.llama_stack_url], q.backend,
                                 fail, <<LlmModel>>)
        IN  Commit("script", ServiceCall(q, r))

\* a Refresh Models that clears st.cache_data alone
RefreshModelsKeepsService ==
    \E p \in Rerun(Process) :
        \E q \in Rerun([p EXCEPT !.cache_data = Cleared]) :
            Commit("refresh_models", q)

\* app.py 220-225
RefreshModelsButton ==
    \E p \in Rerun(Process) :
        \E q \in Rerun([p EXCEPT !.cache_data = Cleared, !.cache_resource = Cleared]) :
            Commit("refresh_models", q)

\* app.py 228-323
ChatInputSubmit ==
    \E p \in Rerun(Process), reply \in Replies :
        /\ p.model_name # None
        /\ Len(p.session_state.messages) + 2 <= MaxMessages
        /\ \E q \in Rerun(ChatInput(p, reply.fail, reply.turn)) : Commit("chat_input", q)

\* app.py 335-340
ClearChatButton ==
    \E p \in Rerun(Process) :
        \E q \in Rerun([p EXCEPT !.session_state.messages = <<>>]) :
            Commit("clear_chat", q)

\* app.py 343-349
ResetAgentButton ==
    \E p \in Rerun(Process) :
        LET q == get_llama_stack_service(p, p.llama_stack_url)
            r == [q EXCEPT !.cache_resource[q.llama_stack_url] = reset_session(@),
                           !.session_state.messages = <<>>]
        IN  \E done \in Rerun(r) : Commit("reset_agent", done)

\* the seconds that pass between two runs; an entry that has reached TTL
\* stays expired however old it is
Delays == {TTL - 1, TTL}
Later(age, dt) == IF age + dt < TTL THEN age + dt ELSE TTL

TimePasses ==
    /\ \E dt \in Delays :
           cache_data' = [u \in DOMAIN cache_data |->
                             [cache_data[u] EXCEPT !.age = Later(@, dt)]]
    /\ cache_data' # cache_data
    /\ last' = [op |-> "sleep", fetches |-> 0]
    /\ turn_details' = None
    /\ UNCHANGED <<cache_resource, backend, pc, turn, i, j, hist, script,
                   llama_stack_url, session_state, available_models, model_name,
                   threads, browsers>>

\* ---- the Ollama page, src/app.py ----

\* app.py 36-37: get_ollama_models has no parameter, so st.cache_data has
\* one entry for it
OllamaKey == "get_ollama_models()"

\* the page as one record (the variable llama_stack_url holds the URL field
\* of either page); fetches counts the runs of get_ollama_models
OllamaProcess ==
    [ollama_url |-> llama_stack_url,
     cache_data |-> cache_data, session_state |-> session_state,
     available_models |-> available_models, model_name |-> model_name,
     fetches |-> 0]

\* what GET /api/tags may give when the page loads the models
OllamaLoads ==
    { [fail |-> "connection", data |-> Cleared],
      [fail |-> "none", data |-> Cleared],
      [fail |-> "none", data |-> [models |-> <<[name |-> "m1"], [name |-> "m2"]>>]] }

\* app.py 36-37, 50: the cached call of get_ollama_models
OllamaModelsCached(p, tags) ==
    IF Cached(p, OllamaKey) THEN p
    ELSE [p EXCEPT
             !.cache_data = (OllamaKey :> [value |-> get_ollama_models(tags),
                                           age |-> 0]) @@ @,
             !.fetches = @ + 1]

\* app.py 29-85: the script down to the chat history
OllamaLoadPage(p, tags) ==
    LET q == OllamaModelsCached(p, tags)
        loaded == q.cache_data[OllamaKey].value
    IN  [q EXCEPT !.available_models = loaded,
                  !.model_name = IF loaded # <<>>
                                 THEN selectbox(loaded, p.available_models,
                                                p.model_name)
                                 ELSE None,
                  !.session_state = IF "messages" \in DOMAIN @ THEN @
                                    ELSE [messages |-> <<>>]]

\* the runs of the script without an event
OllamaRerun(p) ==
    UNION { { OllamaLoadPage(v, tags)
              : tags \in IF Cached(v, OllamaKey)
                         THEN {[fail |-> "none", data |-> Cleared]}
                         ELSE OllamaLoads }
            : v \in {p} }

\* what POST /api/generate may give: the request fails, the status is an
\* error, the body is no JSON, or the body is a dict with or without the
\* key "response"
OllamaReplies ==
    { [fail |-> fail, result |-> Cleared] : fail \in OllamaFailures }
    \cup { [fail |-> "none", result |-> r] : r \in {[response |-> "A"], Cleared} }

\* app.py 88-118
call_ollama(reply) ==
    IF reply.fail = "connection"
    THEN "[x] Connection error: Could not connect to Ollama. Please check if Ollama is running."
    ELSE IF reply.fail = "timeout"
    THEN "[x] Timeout error: The request took too long. Please try again."
    ELSE IF reply.fail = "http"
    THEN "[x] HTTP error: status_code - text"
    ELSE IF reply.fail = "json"
    THEN "[x] Unexpected error: json"
    ELSE getattr(reply.result, "response", "No response received from the model.")

\* app.py 167
OllamaChatInputAsks(p) ==
    [p EXCEPT !.session_state.messages =
                  Append(@, [role |-> "user", content |-> Prompt])]

\* app.py 170-185, for a page that has appended the user message
OllamaChatInputAnswers(asked, reply) ==
    [asked EXCEPT !.session_state.messages =
                      Append(@, [role |-> "assistant",
                                 content |-> call_ollama(reply)])]

\* app.py 167-185
OllamaChatInput(p, reply) == OllamaChatInputAnswers(OllamaChatInputAsks(p), reply)

\* the variables after a run of the Ollama page that left it as p
OllamaLeaves(op, p) ==
    /\ script = OllamaPage
    /\ llama_stack_url' = p.ollama_url
    /\ cache_data' = p.cache_data
    /\ session_state' = p.session_state
    /\ available_models' = p.available_models
    /\ model_name' = p.model_name
    /\ last' = [op |-> op, fetches |-> p.fetches]
    /\ UNCHANGED <<cache_resource, backend, turn, i, j, turn_details, hist, script,
                   threads, browsers>>

\* a run of the Ollama page that has come to its end
OllamaCommit(op, p) == OllamaLeaves(op, p) /\ UNCHANGED pc

\* the page is opened, or a widget without state is used (the temperature
\* slider; Test Connection, app.py 123-147)
OllamaScriptRun ==
    \E p \in OllamaRerun(OllamaProcess) : OllamaCommit("script", p)

\* app.py 55-60
OllamaModelSelect ==
    \E k \in DOMAIN available_models :
        /\ model_name # [str |-> available_models[k]]
        /\ \E p \in OllamaRerun([OllamaProcess EXCEPT
                                     !.model_name = [str |-> available_models[k]]]) :
               OllamaCommit("script", p)

\* app.py 150-154
OllamaRefreshModelsButton ==
    \E p \in OllamaRerun(OllamaProcess) :
        \E q \in OllamaRerun([p EXCEPT !.cache_data = Cleared]) :
            OllamaCommit("refresh_models", q)

\* app.py 162-185; the handler does not call st.rerun()
OllamaChatInputSubmit ==
    \E p \in OllamaRerun(OllamaProcess), reply \in OllamaReplies :
        /\ p.model_name # None
        /\ Len(p.session_state.messages) + 2 <= MaxMessages
        /\ OllamaCommit("chat_input", OllamaChatInput(p, reply))

\* app.py 192-195
OllamaClearChatButton ==
    \E p \in OllamaRerun(OllamaProcess) :
        \E q \in OllamaRerun([p EXCEPT !.session_state.messages = <<>>]) :
            OllamaCommit("clear_chat", q)

NextApp ==
    \/ ScriptRun
    \/ ModelSelect
    \/ TestConnectionButton
    \/ RefreshModelsButton
    \/ ChatInputSubmit
    \/ ClearChatButton
    \/ ResetAgentButton
    \/ TimePasses
    \/ OllamaScriptRun
    \/ OllamaModelSelect
    \/ OllamaRefreshModelsButton
    \/ OllamaChatInputSubmit
    \/ OllamaClearChatButton

SpecApp == InitApp /\ [][NextApp]_vars

----------------------------------------------------------------------------
(* SpecInterrupts: the pages of SpecApp, with a chat handler that may not  *)
(* come to its end.  The widgets of a page stay usable while its script    *)
(* runs.  When one is used, Streamlit asks the running script to stop, and *)
(* the script stops at the next st.* call it makes: each of them is a      *)
(* point where a run can end.  The chat handlers append the user message,  *)
(* make st.* calls, wait for the backend, make st.* calls, and only then   *)
(* append the assistant message.  pc is "thinking" from the append of the  *)
(* user message to the end of the run, and "idle" between two runs.        *)

\* every run of SpecApp: the script runs to its end
RunsToEnd ==
    /\ pc = "idle"
    /\ NextApp

\* app.py 228-239: the message is submitted, the user message is appended
\* and the handler waits for call_llama_stack_with_details
ChatInputStarts ==
    /\ pc = "idle"
    /\ \E p \in Rerun(Process) :
           /\ p.model_name # None
           /\ Len(p.session_state.messages) + 2 <= MaxMessages
           /\ Leaves("chat_input", ChatInputAsks(p))
    /\ pc' = "thinking"

\* app.py 239-323: the call returns and the handler runs to st.rerun()
ChatInputEnds ==
    /\ pc = "thinking"
    /\ \E reply \in Replies :
           \E q \in Rerun(ChatInputAnswers(Process, reply.fail, reply.turn)) :
               Leaves("chat_input", q)
    /\ pc' = "idle"

\* app.py 238-317: a widget is used while the handler is between the two
\* appends.  The run stops at st.chat_message / st.spinner (238-239) before
\* the call, or at the first st.* call after it (249-296, 316), and the
\* script runs again for the widget
ChatInputInterrupted ==
    /\ pc = "thinking"
    /\ \/ \E q \in Rerun(Process) : Leaves("script", q)
       \/ \E reply \in Replies :
              \E q \in Rerun(call_llama_stack_with_details(
                                Process, model_name.str, reply.fail, reply.turn).p) :
                  Leaves("script", q)
    /\ pc' = "idle"

\* app.py 162-175 (Ollama page): the user message is appended and the
\* handler waits for call_ollama
OllamaChatInputStarts ==
    /\ pc = "idle"
    /\ \E p \in OllamaRerun(OllamaProcess) :
           /\ p.model_name # None
           /\ Len(p.session_state.messages) + 2 <= MaxMessages
           /\ OllamaLeaves("chat_input", OllamaChatInputAsks(p))
    /\ pc' = "thinking"

\* app.py 177-185 (Ollama page): the call returns and the script runs to
\* its end
OllamaChatInputEnds ==
    /\ pc = "thinking"
    /\ \E reply \in OllamaReplies :
           OllamaLeaves("chat_input", OllamaChatInputAnswers(OllamaProcess, reply))
    /\ pc' = "idle"

\* app.py 170-182 (Ollama page): a widget is used while the handler is
\* between the two appends.  The run stops at one of its st.* calls
\* (170-175, 182), and the script runs again for the widget
OllamaChatInputInterrupted ==
    /\ pc = "thinking"
    /\ \E q \in OllamaRerun(OllamaProcess) : OllamaLeaves("script", q)
    /\ pc' = "idle"

InitInterrupts == InitApp

NextInterrupts ==
    \/ RunsToEnd
    \/ ChatInputStarts
    \/ ChatInputEnds
    \/ ChatInputInterrupted
    \/ OllamaChatInputStarts
    \/ OllamaChatInputEnds
    \/ OllamaChatInputInterrupted

SpecInterrupts == InitInterrupts /\ [][NextInterrupts]_vars

----------------------------------------------------------------------------
(* SpecUrls: the pages with a URL field that the user changes.  Two        *)
(* servers are up for each page, each at its own URL and each with its own *)
(* model list; a fetch gets the list of the server at the URL it contacts. *)
(* The events are a run of the script, a change of the URL field, Refresh  *)
(* Models, and the passing of time.                                        *)

OtherUrl == "http://localhost:8322"
OtherOllamaUrl == "http://localhost:11435"

\* the URLs the field of the page may hold
Urls ==
    IF script = LlamaStackPage THEN {DefaultUrl, OtherUrl}
    ELSE {OllamaUrl, OtherOllamaUrl}

\* what client.models.list() gets from the server at base_url
ModelsAt(base_url) ==
    IF base_url = DefaultUrl THEN <<EmbeddingModel, LlmModel>> ELSE <<UntypedModel>>

\* what GET {ollama_url}/api/tags gets from the server at ollama_url
TagsAt(ollama_url) ==
    [fail |-> "none",
     data |-> [models |-> IF ollama_url = OllamaUrl
                          THEN <<[name |-> "m1"], [name |-> "m2"]>>
                          ELSE <<[name |-> "m2"]>>]]

\* app.py 29-95: a run of the script; the client of the service for the URL
\* of the field contacts the base_url it was constructed with (service.py
\* 32-39)
UrlRerun(p) ==
    LET q == get_llama_stack_service(p, p.llama_stack_url)
        svc == q.cache_resource[p.llama_stack_url]
    IN  LoadPage(p, [fail |-> "none", models_response |-> ModelsAt(svc.base_url)])

\* app.py 29-85 (Ollama page): a run of the script; get_ollama_models
\* contacts the ollama_url of this run (app.py 40)
OllamaUrlRerun(p) == OllamaLoadPage(p, TagsAt(p.ollama_url))

UrlScriptRun ==
    /\ script = LlamaStackPage
    /\ Commit("script", UrlRerun(Process))

\* app.py 29-33: the user edits the URL field
UrlChange ==
    \E base_url \in Urls \ {llama_stack_url} :
        Commit("url", UrlRerun([Process EXCEPT !.llama_stack_url = base_url]))

\* app.py 220-225
UrlRefreshModels ==
    /\ script = LlamaStackPage
    /\ Commit("refresh_models",
              UrlRerun([UrlRerun(Process) EXCEPT !.cache_data = Cleared,
                                                 !.cache_resource = Cleared]))

OllamaUrlScriptRun ==
    /\ script = OllamaPage
    /\ OllamaCommit("script", OllamaUrlRerun(OllamaProcess))

\* app.py 29-33 (Ollama page): the user edits the URL field
OllamaUrlChange ==
    \E ollama_url \in Urls \ {llama_stack_url} :
        OllamaCommit("url", OllamaUrlRerun([OllamaProcess EXCEPT
                                               !.ollama_url = ollama_url]))

\* app.py 150-154 (Ollama page)
OllamaUrlRefreshModels ==
    /\ script = OllamaPage
    /\ OllamaCommit("refresh_models",
                    OllamaUrlRerun([OllamaUrlRerun(OllamaProcess) EXCEPT
                                       !.cache_data = Cleared]))

InitUrls == InitApp

NextUrls ==
    \/ UrlScriptRun
    \/ UrlChange
    \/ UrlRefreshModels
    \/ OllamaUrlScriptRun
    \/ OllamaUrlChange
    \/ OllamaUrlRefreshModels
    \/ TimePasses

SpecUrls == InitUrls /\ [][NextUrls]_vars

----------------------------------------------------------------------------
(* SpecThreads: two script threads in the methods of one cached service.   *)
(* Streamlit runs the script of every browser session in a thread of its   *)
(* own, and st.cache_resource hands the same LlamaStackService to all of   *)
(* them.  Each thread makes one call of client, get_agent or               *)
(* get_session_id; a step is what a thread does between two points where   *)
(* the interpreter may switch threads: the test of an attribute, a         *)
(* construction with the assignment of its result, the read of the         *)
(* attribute for return.  The methods take no lock.  No backend call       *)
(* fails.                                                                  *)

Threads == {1, 2}

Methods == {"client", "get_agent", "get_session_id"}

\* a thread before its call; client and agent are its local values
NewThread ==
    [pc |-> "idle", op |-> "none", model_id |-> "none", client |-> None,
     agent |-> None, value |-> None]

At(t, label) == threads[t].pc = label

Goto(t, label) == threads' = [threads EXCEPT ![t].pc = label]

SetService(svc) == cache_resource' = [cache_resource EXCEPT ![DefaultUrl] = svc]

threadVars == <<normVars, last, hist, script, llama_stack_url, cache_data, session_state,
                available_models, model_name, browsers>>

\* app.py 172-188, 195-198: a script thread calls a method of the service
ThreadCalls(t) ==
    /\ At(t, "idle")
    /\ \E op \in Methods, model_id \in Models :
           threads' = [threads EXCEPT ![t].pc = op, ![t].op = op,
                                      ![t].model_id = model_id]
    /\ UNCHANGED <<cache_resource, backend, threadVars>>

\* service.py 31: if self._client is None
ClientTest(t) ==
    /\ At(t, "client")
    /\ Goto(t, IF TheService._client = None THEN "client:new" ELSE "client:return")
    /\ UNCHANGED <<cache_resource, backend, threadVars>>

\* service.py 32-39: self._client = LlamaStackClient(...)
ClientNew(t) ==
    /\ At(t, "client:new")
    /\ backend' = [backend EXCEPT !.clients = @ + 1]
    /\ SetService([TheService EXCEPT
                       !._client = [client |-> backend.clients + 1,
                                    base_url |-> TheService.base_url]])
    /\ Goto(t, "client:return")
    /\ UNCHANGED threadVars

\* service.py 43: return self._client, to the caller of the property or to
\* get_agent (line 160)
ClientReturn(t) ==
    /\ At(t, "client:return")
    /\ threads' = [threads EXCEPT
                      ![t].client = TheService._client,
                      ![t].value = IF threads[t].op = "client"
                                   THEN TheService._client ELSE @,
                      ![t].pc = IF threads[t].op = "client"
                                THEN "done" ELSE "get_agent:new"]
    /\ UNCHANGED <<cache_resource, backend, threadVars>>

\* service.py 155: if self._agent is None; the argument client=self.client
\* is evaluated before ReActAgent is called
AgentTest(t) ==
    /\ At(t, "get_agent")
    /\ Goto(t, IF TheService._agent = None THEN "client" ELSE "get_agent:return")
    /\ UNCHANGED <<cache_resource, backend, threadVars>>

\* service.py 159-165: self._agent = ReActAgent(client=..., model=model_id)
AgentNew(t) ==
    /\ At(t, "get_agent:new")
    /\ LET a == [agent |-> Cardinality(backend.agents) + 1,
                 model |-> threads[t].model_id, client |-> threads[t].client]
       IN  /\ backend' = [backend EXCEPT !.agents = @ \cup {a}]
           /\ SetService([TheService EXCEPT !._agent = a])
    /\ Goto(t, "get_agent:return")
    /\ UNCHANGED threadVars

\* service.py 172: return self._agent, to the caller or to get_session_id
\* (line 186)
AgentReturn(t) ==
    /\ At(t, "get_agent:return")
    /\ threads' = [threads EXCEPT
                      ![t].agent = TheService._agent,
                      ![t].value = IF threads[t].op = "get_agent"
                                   THEN TheService._agent ELSE @,
                      ![t].pc = IF threads[t].op = "get_agent"
                                THEN "done" ELSE "get_session_id:new"]
    /\ UNCHANGED <<cache_resource, backend, threadVars>>

\* service.py 184: if self._session_id is None
SessionIdTest(t) ==
    /\ At(t, "get_session_id")
    /\ Goto(t, IF TheService._session_id = None
               THEN "get_agent" ELSE "get_session_id:return")
    /\ UNCHANGED <<cache_resource, backend, threadVars>>

\* service.py 187-189: agent.create_session, self._session_id = str(...)
SessionIdNew(t) ==
    /\ At(t, "get_session_id:new")
    /\ backend' = [backend EXCEPT !.sessions = @ + 1]
    /\ SetService([TheService EXCEPT
                       !._session_id = SessionIdString(backend.sessions + 1)])
    /\ Goto(t, "get_session_id:return")
    /\ UNCHANGED threadVars

\* service.py 196-197: return self._session_id
SessionIdReturn(t) ==
    /\ At(t, "get_session_id:return")
    /\ threads' = [threads EXCEPT ![t].value = TheService._session_id,
                                  ![t].pc = "done"]
    /\ UNCHANGED <<cache_resource, backend, threadVars>>

InitThreads ==
    /\ cache_resource = (DefaultUrl :> NewService(DefaultUrl))
    /\ backend = NewBackend
    /\ pc = "idle"
    /\ turn = None
    /\ i = 0
    /\ j = 0
    /\ turn_details = None
    /\ last = NoCall
    /\ hist = NoHistory
    /\ script = LlamaStackPage
    /\ llama_stack_url = DefaultUrl
    /\ cache_data = Cleared
    /\ session_state = Cleared
    /\ available_models = <<>>
    /\ model_name = None
    /\ threads = [t \in Threads |-> NewThread]
    /\ browsers = Cleared

NextThreads ==
    \E t \in Threads :
        \/ ThreadCalls(t)
        \/ ClientTest(t)
        \/ ClientNew(t)
        \/ ClientReturn(t)
        \/ AgentTest(t)
        \/ AgentNew(t)
        \/ AgentReturn(t)
        \/ SessionIdTest(t)
        \/ SessionIdNew(t)
        \/ SessionIdReturn(t)

SpecThreads == InitThreads /\ [][NextThreads]_vars

----------------------------------------------------------------------------
(* SpecBrowsers: two browser sessions on the page of one server, with the  *)
(* same URL.  st.cache_resource and st.cache_data belong to the server     *)
(* process and are shared; st.session_state and the variables of the       *)
(* script belong to the session.  A step is one event of one session with  *)
(* the runs of the script it causes.  Each session also notes the agent    *)
(* and the backend session its conversation runs in: those of its last     *)
(* message that reached the agent, until it resets the agent or refreshes  *)
(* the models itself.                                                      *)

Browsers == {1, 2}

NewBrowser ==
    [session_state |-> Cleared, available_models |-> <<>>, model_name |-> None,
     agent |-> None, session_id |-> None]

\* the process as the script of browser session b sees it
ProcessOf(b) ==
    [llama_stack_url |-> llama_stack_url, cache_resource |-> cache_resource,
     cache_data |-> cache_data, backend |-> backend,
     session_state |-> browsers[b].session_state,
     available_models |-> browsers[b].available_models,
     model_name |-> browsers[b].model_name, turn_details |-> None, fetches |-> 0]

\* the agent and the backend session a conversation is in after a run
Conversation(b, op, p) ==
    LET svc == p.cache_resource[p.llama_stack_url]
    IN  IF op \in {"reset_agent", "refresh_models"}
        THEN [agent |-> None, session_id |-> None]
        ELSE IF op = "chat_input" /\ svc._agent # None /\ svc._session_id # None
        THEN [agent |-> svc._agent, session_id |-> svc._session_id]
        ELSE [agent |-> browsers[b].agent, session_id |-> browsers[b].session_id]

\* the variables after a run of browser session b that left the process as p
CommitOf(b, op, p) ==
    /\ Bounded(p.backend)
    /\ cache_resource' = p.cache_resource
    /\ cache_data' = p.cache_data
    /\ backend' = p.backend
    /\ browsers' = [browsers EXCEPT ![b] =
                        [session_state |-> p.session_state,
                         available_models |-> p.available_models,
                         model_name |-> p.model_name,
                         agent |-> Conversation(b, op, p).agent,
                         session_id |-> Conversation(b, op, p).session_id]]
    /\ last' = [op |-> op, by |-> b]
    /\ UNCHANGED <<normVars, hist, script, llama_stack_url, session_state,
                   available_models, model_name, threads>>

\* st.session_state.messages of browser session b
TranscriptOf(b) == getattr(browsers[b].session_state, "messages", <<>>)

\* the messages of all browser sessions
Messages == UNION { { <<b, k>> : k \in 1..Len(TranscriptOf(b)) } : b \in Browsers }

\* the page is opened or reloaded
BrowserRuns(b) ==
    \E p \in Rerun(ProcessOf(b)) : CommitOf(b, "script", p)

\* app.py 228-323
BrowserSubmits(b) ==
    \E p \in Rerun(ProcessOf(b)), reply \in Replies :
        /\ p.model_name # None
        /\ Cardinality(Messages) + 2 <= MaxMessages
        /\ \E q \in Rerun(ChatInput(p, reply.fail, reply.turn)) :
               CommitOf(b, "chat_input", q)

\* app.py 220-225
BrowserRefreshesModels(b) ==
    \E p \in Rerun(ProcessOf(b)) :
        \E q \in Rerun([p EXCEPT !.cache_data = Cleared, !.cache_resource = Cleared]) :
            CommitOf(b, "refresh_models", q)

\* app.py 335-340
BrowserClearsChat(b) ==
    \E p \in Rerun(ProcessOf(b)) :
        \E q \in Rerun([p EXCEPT !.session_state.messages = <<>>]) :
            CommitOf(b, "clear_chat", q)

\* app.py 343-349
BrowserResetsAgent(b) ==
    \E p \in Rerun(ProcessOf(b)) :
        LET q == get_llama_stack_service(p, p.llama_stack_url)
            r == [q EXCEPT !.cache_resource[q.llama_stack_url] = reset_session(@),
                           !.session_state.messages = <<>>]
        IN  \E done \in Rerun(r) : CommitOf(b, "reset_agent", done)

InitBrowsers ==
    /\ cache_resource = Cleared
    /\ backend = NewBackend
    /\ pc = "idle"
    /\ turn = None
    /\ i = 0
    /\ j = 0
    /\ turn_details = None
    /\ last = NoCall
    /\ hist = NoHistory
    /\ script = LlamaStackPage
    /\ llama_stack_url = DefaultUrl
    /\ cache_data = Cleared
    /\ session_state = Cleared
    /\ available_models = <<>>
    /\ model_name = None
    /\ threads = Cleared
    /\ browsers = [b \in Browsers |-> NewBrowser]

NextBrowsers ==
    \E b \in Browsers :
        \/ BrowserRuns(b)
        \/ BrowserSubmits(b)
        \/ BrowserRefreshesModels(b)
        \/ BrowserClearsChat(b)
        \/ BrowserResetsAgent(b)

SpecBrowsers == InitBrowsers /\ [][NextBrowsers]_vars

----------------------------------------------------------------------------
(* Properties of the extraction (SpecNorm).                                *)

StepsOf(t) == getattr(t, "steps", <<>>)

\* the turn was obtained and its extraction has returned
Extracted == pc = "returned" /\ turn # None

IsInference(step) == getattr(step, "step_type", "unknown") = "inference"
IsToolExecution(step) == getattr(step, "step_type", "unknown") = "tool_execution"

\* the step leaves the loop body by an exception
Throws(step) == IsToolExecution(step) /\ "raises" \in DOMAIN step

\* 1-based position of the first throwing step, 0 if there is none
FirstThrow(steps) ==
    LET ks == { k \in 1..Len(steps) : Throws(steps[k]) }
    IN  IF ks = {} THEN 0 ELSE CHOOSE k \in ks : \A m \in ks : k <= m

WithoutField(r, f) == [x \in DOMAIN r \ {f} |-> r[x]]

\* the part of a turn that is processed before step k throws: steps 1..k-1,
\* and of step k what it does before the exception (nothing when len()
\* raises, everything listed when the iteration raises at its end)
ProcessedPart(steps, k) ==
    IF steps[k].raises = "len"
    THEN SubSeq(steps, 1, k - 1)
    ELSE Append(SubSeq(steps, 1, k - 1), WithoutField(steps[k], "raises"))

\* C1: send_message_with_turn_details never raises and always returns a
\* result; when processing step k of the turn throws, the result has
\* success = false and error set, its reasoning_steps and tool_usage are those
\* collected from steps 0..k-1 and from step k before the throw, and the loop
\* has stopped at step k.
C1_NeverRaisesKeepsPartial ==
    /\ last.op = "send_message_with_turn_details" => ~last.raised
    /\ pc # "returned" => ENABLED NextNorm
    /\ pc = "returned" => "success" \in DOMAIN turn_details
    /\ Extracted =>
         LET k == FirstThrow(StepsOf(turn))
         IN  IF k = 0
             THEN turn_details.success /\ "error" \notin DOMAIN turn_details
             ELSE LET part == Extract([steps |-> ProcessedPart(turn.steps, k)])
                  IN  /\ ~turn_details.success
                      /\ "error" \in DOMAIN turn_details
                      /\ turn_details.reasoning_steps = part.reasoning_steps
                      /\ turn_details.tool_usage = part.tool_usage
                      /\ i = k - 1

\* a turn whose second step throws after it appended an entry behind the one
\* of the first step, with a third step that is never processed
C1_Witness ==
    /\ Extracted
    /\ ~turn_details.success
    /\ i = 1
    /\ Len(turn.steps) = 3
    /\ Len(turn_details.reasoning_steps) = 1
    /\ Len(turn_details.tool_usage) = 2
    /\ turn_details.tool_usage[1].status = "requested"
    /\ turn_details.tool_usage[2].status = "completed"

\* the step's call_id the current tool response is matched by
CurrentCallId == getattr(CurrentResponse, "call_id", "")

Hit == \E k \in 1..Len(turn_details.tool_usage) :
           turn_details.tool_usage[k].call_id = CurrentCallId

\* C2: a tool response whose call_id equals the call_id of an entry of
\* tool_usage updates that entry in place (the first such entry): output,
\* status = completed and step_id are set, tool_name, arguments and call_id
\* are kept, every other entry is unchanged and the length is unchanged.
C2_CorrelationHit ==
    [][ (AtResponse /\ Hit /\ j' = j + 1) =>
          LET old == turn_details.tool_usage
              new == turn_details'.tool_usage
              k == CHOOSE n \in 1..Len(old) :
                       /\ old[n].call_id = CurrentCallId
                       /\ \A m \in 1..(n - 1) : old[m].call_id # CurrentCallId
          IN  /\ Len(new) = Len(old)
              /\ \A m \in 1..Len(old) : m # k => new[m] = old[m]
              /\ new[k].output = getattr(CurrentResponse, "content", "")
              /\ new[k].status = "completed"
              /\ new[k].step_id = CurrentStepId
              /\ new[k].tool_name = old[k].tool_name
              /\ new[k].call_id = old[k].call_id
              /\ ("arguments" \in DOMAIN old[k]) =>
                     ("arguments" \in DOMAIN new[k]
                      /\ new[k].arguments = old[k].arguments)
              /\ DOMAIN new[k] = DOMAIN old[k] \cup {"output"}
      ]_vars

\* a response c1 has completed the first of two requested entries c1, which
\* kept its arguments, and has left the second one alone
C2_Witness ==
    /\ pc = "responses"
    /\ j = 2
    /\ Len(turn_details.tool_usage) = 3
    /\ turn_details.tool_usage[1].status = "completed"
    /\ turn_details.tool_usage[1].output = "out1"
    /\ turn_details.tool_usage[1].arguments = {<<"q", "a">>}
    /\ turn_details.tool_usage[2].call_id = "c1"
    /\ turn_details.tool_usage[2].status = "requested"

\* C3: a tool response whose call_id matches no entry of tool_usage appends
\* exactly one entry, with status completed, the response's tool_name,
\* call_id and content as output and the step's id, and no arguments field;
\* the entries already there are unchanged.
C3_CorrelationMiss ==
    [][ (AtResponse /\ ~Hit /\ j' = j + 1) =>
          LET old == turn_details.tool_usage
              new == turn_details'.tool_usage
          IN  /\ Len(new) = Len(old) + 1
              /\ SubSeq(new, 1, Len(old)) = old
              /\ DOMAIN new[Len(new)] =
                     {"tool_name", "call_id", "output", "step_id", "status"}
              /\ new[Len(new)].status = "completed"
              /\ new[Len(new)].tool_name =
                     getattr(CurrentResponse, "tool_name", "unknown_tool")
              /\ new[Len(new)].call_id = CurrentCallId
              /\ new[Len(new)].output = getattr(CurrentResponse, "content", "")
              /\ new[Len(new)].step_id = CurrentStepId
      ]_vars

\* a response c2 was appended behind a requested entry that it left alone
C3_Witness ==
    /\ pc = "responses"
    /\ j = 1
    /\ Len(turn_details.tool_usage) = 2
    /\ turn_details.tool_usage[1].status = "requested"
    /\ turn_details.tool_usage[2].call_id = "c2"
    /\ turn_details.tool_usage[2].status = "completed"
    /\ "arguments" \notin DOMAIN turn_details.tool_usage[2]

\* an inference step that answers: no tool calls and non-empty content
IsFinalStep(step) ==
    /\ IsInference(step)
    /\ "api_model_response" \in DOMAIN step
    /\ getattr(step.api_model_response, "tool_calls", <<>>) = <<>>
    /\ getattr(step.api_model_response, "content", "") # ""

FinalSteps(steps) == { k \in 1..Len(steps) : IsFinalStep(steps[k]) }

Greatest(S) == CHOOSE k \in S : \A m \in S : m <= k

\* the elements of a set of numbers in increasing order
Ascending(S) ==
    CHOOSE f \in [1..Cardinality(S) -> S] :
        \A a, b \in 1..Cardinality(S) : a < b => f[a] < f[b]

\* the step_id the loop uses for steps[k] (k counted from 1)
StepIdAt(steps, k) == getattr(steps[k], "step_id", DefaultStepId(k - 1))

IsFinalEntry(e) == e.type = "final_response"

\* C4: for a turn processed without error, final_response is the content of
\* the last inference step without tool calls and with non-empty content (the
\* placeholder if there is none), and reasoning_steps holds one
\* final_response entry per such step, in the order of the steps.
C4_LastFinalResponseWins ==
    (Extracted /\ turn_details.success) =>
        LET steps == StepsOf(turn)
            q == FinalSteps(steps)
            finals == SelectSeq(turn_details.reasoning_steps, IsFinalEntry)
        IN  /\ turn_details.final_response =
                   IF q = {} THEN Placeholder
                   ELSE steps[Greatest(q)].api_model_response.content
            /\ Len(finals) = Cardinality(q)
            /\ \A n \in 1..Len(finals) :
                   finals[n].step_id = StepIdAt(steps, Ascending(q)[n])

\* two answering steps, "B" then "A": the later one is the final response
C4_Witness ==
    /\ Extracted /\ turn_details.success
    /\ Len(turn.steps) = 3
    /\ IsFinalStep(turn.steps[1]) /\ turn.steps[1].api_model_response.content = "B"
    /\ IsFinalStep(turn.steps[3]) /\ turn.steps[3].api_model_response.content = "A"
    /\ turn_details.final_response = "A"
    /\ Len(turn_details.reasoning_steps) = 2

InsertStep(t, p, u) ==
    [t EXCEPT !.steps = SubSeq(@, 1, p) \o <<u>> \o SubSeq(@, p + 1, Len(@))]

WithoutStepIds(entries) ==
    [n \in 1..Len(entries) |-> WithoutField(entries[n], "step_id")]

\* C5 as claimed: inserting a step of unknown type at any position leaves
\* reasoning_steps, tool_usage and final_response as they are without it.
C5_UnknownStepIsNoOp ==
    (Extracted /\ "steps" \in DOMAIN turn) =>
        \A p \in 0..Len(turn.steps), u \in UnknownSteps :
            LET with == Extract(InsertStep(turn, p, u))
            IN  /\ with.reasoning_steps = turn_details.reasoning_steps
                /\ with.tool_usage = turn_details.tool_usage
                /\ with.final_response = turn_details.final_response

\* C5 amended: inserting a step of unknown type at any position leaves
\* final_response as it is, and leaves reasoning_steps and tool_usage as they
\* are up to the step_id of their entries; they are identical when every step
\* behind the inserted one carries a step_id of its own (a step without one
\* gets the id step_<index>, and the inserted step moves its index by one).
C5_UnknownStepKeepsAllButDefaultIds ==
    (Extracted /\ "steps" \in DOMAIN turn) =>
        \A p \in 0..Len(turn.steps), u \in UnknownSteps :
            LET with == Extract(InsertStep(turn, p, u))
            IN  /\ with.final_response = turn_details.final_response
                /\ WithoutStepIds(with.reasoning_steps) =
                       WithoutStepIds(turn_details.reasoning_steps)
                /\ WithoutStepIds(with.tool_usage) =
                       WithoutStepIds(turn_details.tool_usage)
                /\ (\A k \in (p + 1)..Len(turn.steps) : "step_id" \in DOMAIN turn.steps[k])
                       => /\ with.reasoning_steps = turn_details.reasoning_steps
                          /\ with.tool_usage = turn_details.tool_usage

\* an unknown step in front of an answering step without step_id, whose
\* entry got the id of its index
C5_Witness ==
    /\ Extracted
    /\ Len(turn.steps) = 2
    /\ ~IsInference(turn.steps[1]) /\ ~IsToolExecution(turn.steps[1])
    /\ Len(turn_details.reasoning_steps) = 1
    /\ turn_details.reasoning_steps[1].step_id = "step_1"

\* C6: an inference step with n > 0 tool calls appends one reasoning entry of
\* type inference with tool-call count n, then n tool_usage entries with status
\* requested in the order of the calls, carrying tool_name, arguments and
\* call_id, and leaves final_response unchanged whatever its content.
C6_InferenceWithToolCalls ==
    [][ ( /\ AtStep
          /\ IsInference(CurrentStep)
          /\ "api_model_response" \in DOMAIN CurrentStep
          /\ "raises" \notin DOMAIN CurrentStep
          /\ Len(getattr(CurrentStep.api_model_response, "tool_calls", <<>>)) > 0
          /\ i' = i + 1 ) =>
          LET calls == CurrentStep.api_model_response.tool_calls
              n == Len(calls)
              old == turn_details
              new == turn_details'
          IN  /\ Len(new.reasoning_steps) = Len(old.reasoning_steps) + 1
              /\ SubSeq(new.reasoning_steps, 1, Len(old.reasoning_steps)) =
                     old.reasoning_steps
              /\ new.reasoning_steps[Len(new.reasoning_steps)].type = "inference"
              /\ new.reasoning_steps[Len(new.reasoning_steps)].tool_calls = n
              /\ new.reasoning_steps[Len(new.reasoning_steps)].step_id = CurrentStepId
              /\ Len(new.tool_usage) = Len(old.tool_usage) + n
              /\ SubSeq(new.tool_usage, 1, Len(old.tool_usage)) = old.tool_usage
              /\ \A m \in 1..n :
                   LET e == new.tool_usage[Len(old.tool_usage) + m]
                   IN  /\ e.status = "requested"
                       /\ e.tool_name = getattr(calls[m], "tool_name", "unknown_tool")
                       /\ e.arguments = getattr(calls[m], "arguments", EmptyDict)
                       /\ e.call_id = getattr(calls[m], "call_id", "")
                       /\ e.step_id = CurrentStepId
              /\ new.final_response = old.final_response
      ]_vars

\* after the answer "B", a step with content "A" and two tool calls was
\* processed: two requested entries, final_response still "B"
C6_Witness ==
    /\ pc = "steps"
    /\ i = 2
    /\ IsFinalStep(turn.steps[1])
    /\ "api_model_response" \in DOMAIN turn.steps[2]
    /\ turn.steps[2].api_model_response.content = "A"
    /\ Len(turn.steps[2].api_model_response.tool_calls) = 2
    /\ Len(turn_details.tool_usage) = 2
    /\ turn_details.tool_usage[2].status = "requested"
    /\ turn_details.final_response = "B"

\* C7 as claimed: a result with success = false has the placeholder as its
\* final_response.
C7_FailureHasPlaceholder ==
    (pc = "returned" /\ ~turn_details.success) =>
        turn_details.final_response = Placeholder

\* C7 amended: a result with success = false has as final_response
\*  - the text of the communication error, when the agent, the session or the
\*    turn could not be created;
\*  - what the steps before the failing step left there, when the extraction
\*    failed: the content of the last answering step before it, or the
\*    placeholder when there is none.
C7_FailureKeepsFinalResponse ==
    (pc = "returned" /\ ~turn_details.success) =>
        IF turn = None
        THEN \E e \in Failures :
                /\ turn_details.final_response =
                       "[x] Error communicating with ReActAgent: " \o e
                /\ turn_details.error = "Error communicating with ReActAgent: " \o e
        ELSE LET q == { k \in FinalSteps(turn.steps) : k < FirstThrow(turn.steps) }
             IN  turn_details.final_response =
                     IF q = {} THEN Placeholder
                     ELSE turn.steps[Greatest(q)].api_model_response.content

\* the extraction failed behind an answering step, whose content stays
C7_Witness ==
    /\ Extracted
    /\ ~turn_details.success
    /\ turn_details.final_response = "A"

----------------------------------------------------------------------------
(* Properties of the session cache (SpecService).                          *)

\* C8 as claimed: between two reset_session calls get_session_id returns one
\* and the same id and agent.create_session is called at most once; after a
\* reset_session it returns an id it has not returned before.
C8_OneCreateSessionCallPerReset ==
    /\ hist.same
    /\ hist.calls <= 1
    /\ hist.returned # None => hist.returned \notin hist.retired

\* C8 amended: between two reset_session calls get_session_id returns one and
\* the same id, agent.create_session succeeds at most once and is not called
\* again once it has succeeded (a call that failed is repeated by the next
\* get_session_id); after a reset_session, get_session_id returns an id
\* created after it, which it has not returned before.
C8_OneSessionPerReset ==
    /\ hist.same
    /\ hist.created <= 1
    /\ hist.late = 0
    /\ hist.returned # None =>
           /\ hist.created = 1
           /\ hist.returned \notin hist.retired
           /\ hist.returned = TheService._session_id

\* after a reset_session, a create_session call failed, the next one
\* succeeded, and get_session_id has now returned the cached id again
C8_Witness ==
    /\ last.op = "get_session_id"
    /\ ~last.raised
    /\ last.log = NoBackendCalls
    /\ last.value = hist.returned
    /\ hist.calls = 2
    /\ hist.retired # {}

\* C10: reset_session sets the cached session id to None and changes nothing
\* else: the client, the agent and the base URL of the service (and the
\* backend) are as before.
C10_ResetSessionFrame ==
    [][ last'.op = "reset_session" =>
          /\ TheService'._session_id = None
          /\ TheService'._client = TheService._client
          /\ TheService'._agent = TheService._agent
          /\ TheService'.base_url = TheService.base_url
          /\ DOMAIN cache_resource' = DOMAIN cache_resource
          /\ backend' = backend
      ]_vars

\* reset_session has dropped a session id of a service with client and agent
C10_Witness ==
    /\ last.op = "reset_session"
    /\ TheService._session_id = None
    /\ TheService._agent # None
    /\ TheService._client # None
    /\ hist.retired # {}

----------------------------------------------------------------------------
(* Properties of the agent cache (SpecApp).                                *)

\* the agents held by the cached services
CachedAgents ==
    { cache_resource[u]._agent : u \in DOMAIN cache_resource } \ {None}

\* C9 as claimed: in one process at most one agent is ever constructed, and
\* every service of the process holds that agent or none.
C9_OneAgentPerProcess ==
    /\ Cardinality(backend.agents) <= 1
    /\ CachedAgents \subseteq backend.agents

\* C9 amended: at most one agent is ever constructed for one client, that
\* is, by one LlamaStackService object (st.cache_resource holds one service
\* for each base URL and is cleared by Refresh Models; the service built
\* afterwards constructs its own client and agent): every agent a cached
\* service holds is the one constructed with the client of that service, and
\* it stays bound to the model it was constructed with.
C9_OneAgentPerService ==
    /\ \A a, b \in backend.agents : a.client = b.client => a = b
    /\ \A u \in DOMAIN cache_resource :
           LET svc == cache_resource[u]
           IN  svc._agent # None =>
                   /\ svc._agent \in backend.agents
                   /\ svc._agent.client = svc._client
                   /\ svc._client.base_url = u

\* a second agent exists after Refresh Models, and a message has been sent
\* with another model than the one the cached agent is bound to
C9_Witness ==
    /\ session_state = [messages |-> <<[role |-> "user", content |-> Prompt],
                                        AssistantMessage(Extract(AnsweredTurn))>>]
    /\ Cardinality(backend.agents) = 2
    /\ llama_stack_url \in DOMAIN cache_resource
    /\ cache_resource[llama_stack_url]._agent # None
    /\ model_name # None
    /\ model_name # [str |-> cache_resource[llama_stack_url]._agent.model]
    /\ \A a \in backend.agents : a.client.base_url = llama_stack_url

----------------------------------------------------------------------------
(* Properties of the lazy construction (SpecService).                      *)

\* the backend call that constructs what is kept in a slot of the service
Constructor(slot) ==
    CASE slot = "_client" -> "LlamaStackClient"
      [] slot = "_agent" -> "ReActAgent"
      [] slot = "_session_id" -> "create_session"

\* the slot whose construction raised e
SlotOf(e) ==
    CASE e = "client" -> "_client"
      [] e = "agent" -> "_agent"
      [] e = "session" -> "_session_id"

\* the slot that client, get_agent, get_session_id return
SlotReturned(op) ==
    CASE op = "client" -> "_client"
      [] op = "get_agent" -> "_agent"
      [] op = "get_session_id" -> "_session_id"

Slots == {"_client", "_agent", "_session_id"}

\* C11: when a construction throws inside client, get_agent or
\* get_session_id, the exception leaves the method, the slot of what failed
\* to construct is still None and every slot that was filled is as it was;
\* a call that finds its slot None attempts the construction (again), it
\* returns no stored failure.
C11_FailedConstructionNotCached ==
    [][ last'.op \in {"client", "get_agent", "get_session_id"} =>
          /\ \A slot \in Slots :
                 TheService[slot] # None => TheService'[slot] = TheService[slot]
          /\ last'.raised =>
                 /\ last'.value \in {"client", "agent", "session"}
                 /\ TheService'[SlotOf(last'.value)] = None
                 /\ last'.log # NoBackendCalls
                 /\ last'.log[Len(last'.log)] = Constructor(SlotOf(last'.value))
          /\ TheService[SlotReturned(last'.op)] = None =>
                 /\ last'.log # NoBackendCalls
                 /\ ~last'.raised =>
                        /\ last'.log[Len(last'.log)] = Constructor(SlotReturned(last'.op))
                        /\ TheService'[SlotReturned(last'.op)] = last'.value
          /\ TheService[SlotReturned(last'.op)] # None =>
                 /\ ~last'.raised
                 /\ last'.log = NoBackendCalls
      ]_vars

\* the construction of the agent has thrown in get_agent: the client it
\* constructed is kept, the agent slot is empty
C11_Witness ==
    /\ last.op = "get_agent"
    /\ last.raised
    /\ last.value = "agent"
    /\ last.log = <<"LlamaStackClient", "ReActAgent">>
    /\ TheService._client # None
    /\ TheService._agent = None

----------------------------------------------------------------------------
(* Properties of the chat page (SpecApp).                                  *)

\* C12: the dict that call_llama_stack_with_details returns, which is the
\* dict send_message_with_turn_details returned or the one built in the
\* except clause of the wrapper, has the key "error" if and only if its
\* "success" is false.
C12_ErrorIffNotSuccess ==
    turn_details # None =>
        ("error" \in DOMAIN turn_details <=> ~turn_details.success)

\* a turn whose extraction failed behind its first step has been returned
C12_Witness ==
    /\ last.op = "chat_input"
    /\ turn_details # None
    /\ ~turn_details.success
    /\ "error" \in DOMAIN turn_details
    /\ turn_details.reasoning_steps # <<>>
    /\ turn_details.turn_id = "t2"

----------------------------------------------------------------------------
(* Properties of the model lists (SpecModels).                             *)

\* C13: get_available_models of both services and get_ollama_models never
\* raise, and return the empty list whenever the construction of the client
\* or the call of the backend failed.
C13_ModelListFailsSoft ==
    last.op \in {"service.get_available_models",
                 "llama_stack_service.get_available_models",
                 "get_ollama_models"} =>
        /\ ~last.raised
        /\ last.fail # "none" => last.value = <<>>

\* the construction of the client has failed in get_available_models of
\* service.py, which returned the empty list
C13_Witness ==
    /\ last.op = "service.get_available_models"
    /\ last.fail = "client"
    /\ ~last.raised
    /\ last.value = <<>>
    /\ TheService._client = None

-----------------------------------------------------------------------------
(* Properties of the transcript (SpecApp).                                 *)

\* st.session_state.messages, empty before the first run of the script
Transcript == getattr(session_state, "messages", <<>>)

\* C14: a submission, on either page, leaves the messages of the transcript
\* as they are and appends two messages to them, the user message and then
\* one assistant message whose content is the answer of the turn or the
\* text of its error (on the Ollama page: what call_ollama has returned),
\* whether the backend call succeeds, fails, or the extraction fails.
C14_SubmissionAppendsTwo ==
    [][ last'.op = "chat_input" =>
          /\ Len(Transcript') = Len(Transcript) + 2
          /\ SubSeq(Transcript', 1, Len(Transcript)) = Transcript
          /\ Transcript'[Len(Transcript) + 1] = [role |-> "user", content |-> Prompt]
          /\ Transcript'[Len(Transcript) + 2].role = "assistant"
          /\ IF script = LlamaStackPage
             THEN Transcript'[Len(Transcript) + 2].content =
                      IF turn_details'.success THEN turn_details'.final_response
                      ELSE "[x] Error: " \o turn_details'.error
             ELSE Transcript'[Len(Transcript) + 2] \in
                      { [role |-> "assistant", content |-> call_ollama(reply)]
                        : reply \in OllamaReplies } ]_vars

\* an answered turn is in the transcript, and a second submission whose
\* extraction failed has been appended behind it
C14_Witness ==
    /\ Len(Transcript) = 4
    /\ Transcript[2] = AssistantMessage(Extract(AnsweredTurn))
    /\ turn_details = Extract(BrokenTurn)
    /\ ~turn_details.success
    /\ Transcript[3].role = "user"
    /\ Transcript[4] = AssistantMessage(turn_details)

\* C15: when the extraction of a turn has failed part-way (success is false
\* and steps were collected before the failure), the assistant message that
\* the submission appended carries the turn details: the reasoning steps and
\* the tool usage collected before the failure.
C15_FailedTurnKeepsDetails ==
    (/\ turn_details # None
     /\ ~turn_details.success
     /\ turn_details.error = "extract_error"
     /\ turn_details.reasoning_steps # <<>>)
    => LET message == Transcript[Len(Transcript)]
       IN  /\ "turn_details" \in DOMAIN message
           /\ message.turn_details.reasoning_steps = turn_details.reasoning_steps
           /\ message.turn_details.tool_usage = turn_details.tool_usage

\* what app.py 313-320 stores instead: the text of the error alone
C15_FailedTurnStoresErrorText ==
    /\ turn_details # None
    /\ ~turn_details.success
    /\ turn_details.error = "extract_error"
    /\ turn_details.reasoning_steps # <<>>
    /\ Transcript[Len(Transcript)] =
           [role |-> "assistant", content |-> "[x] Error: extract_error"]

\* C16: the transcript is append-only.  Every step of the page leaves the
\* messages already appended as they are, in content and position, unless it
\* is Clear Chat or Reset Agent; and these two empty the whole transcript.
C16_TranscriptAppendOnly ==
    [][ /\ \/ /\ Len(Transcript') >= Len(Transcript)
              /\ SubSeq(Transcript', 1, Len(Transcript)) = Transcript
           \/ last'.op \in {"clear_chat", "reset_agent"}
        /\ last'.op \in {"clear_chat", "reset_agent"} => Transcript' = <<>> ]_vars

\* Clear Chat has emptied a transcript: the session of the submission is
\* still cached
C16_Witness ==
    /\ session_state = [messages |-> <<>>]
    /\ backend.sessions = 1
    /\ llama_stack_url \in DOMAIN cache_resource
    /\ cache_resource[llama_stack_url]._session_id = SessionIdString(1)

-----------------------------------------------------------------------------
(* Properties of the caches of the page (SpecApp).                         *)

\* C18: the model list is cached for TTL = 30 seconds.  A step of a page
\* other than Refresh Models that begins less than 30 seconds after the list
\* was fetched does not fetch and shows the cached list, an empty list of a
\* failed fetch included; a step that begins 30 seconds after the fetch or
\* later, or without a cached list, fetches it once and caches the answer.
\* (The age of an entry is the time since the fetch that stored it.)
\* the key of the model list in st.cache_data
CacheKey == IF script = LlamaStackPage THEN llama_stack_url ELSE OllamaKey

FetchedWithin(seconds) ==
    /\ CacheKey \in DOMAIN cache_data
    /\ cache_data[CacheKey].age < seconds

C18_ModelListCachedForTTL ==
    [][ last'.op \in {"script", "chat_input", "clear_chat", "reset_agent"} =>
          IF FetchedWithin(30)
          THEN /\ last'.fetches = 0
               /\ cache_data' = cache_data
               /\ available_models' = cache_data[CacheKey].value
          ELSE /\ last'.fetches = 1
               /\ cache_data'[CacheKey].age = 0
               /\ available_models' = cache_data'[CacheKey].value ]_vars

\* a run of the script 29 seconds after a failed fetch has shown the cached
\* empty list without a fetch
C18_Witness ==
    /\ last = [op |-> "script", fetches |-> 0]
    /\ cache_data = (llama_stack_url :> [value |-> <<>>, age |-> TTL - 1])
    /\ available_models = <<>>
    /\ backend.clients = 0

\* C17: Refresh Models invalidates the model list and the service (client,
\* agent, session) together.  Whatever the age of the cached list, the step
\* fetches the list again and caches the answer; the cached service is a new
\* one without agent and session, whose client, if it has one, has just been
\* constructed.  A submission to a service without agent that reaches the
\* agent constructs a new agent with the client of that service.  (The
\* Ollama page has a model list to invalidate, and no service.)
C17_RefreshInvalidatesBoth ==
    [][ /\ last'.op = "refresh_models" =>
              /\ last'.fetches >= 1
              /\ cache_data'[CacheKey].age = 0
              /\ available_models' = cache_data'[CacheKey].value
        /\ (last'.op = "refresh_models" /\ script = LlamaStackPage) =>
              /\ llama_stack_url \in DOMAIN cache_resource'
              /\ cache_resource'[llama_stack_url]._agent = None
              /\ cache_resource'[llama_stack_url]._session_id = None
              /\ cache_resource'[llama_stack_url]._client # None =>
                     /\ backend'.clients > backend.clients
                     /\ cache_resource'[llama_stack_url]._client.client
                            = backend'.clients
        /\ (/\ last'.op = "chat_input"
            /\ llama_stack_url \in DOMAIN cache_resource
            /\ cache_resource[llama_stack_url]._agent = None
            /\ cache_resource'[llama_stack_url]._agent # None) =>
              /\ cache_resource'[llama_stack_url]._agent \notin backend.agents
              /\ cache_resource'[llama_stack_url]._agent \in backend'.agents
              /\ cache_resource'[llama_stack_url]._agent.client
                     = cache_resource'[llama_stack_url]._client ]_vars

\* Refresh Models has been used after a submission: the transcript and the
\* first agent are still there, the list has just been fetched, and the
\* cached service has a second client and no agent
C17_Witness ==
    /\ Len(Transcript) = 2
    /\ Cardinality(backend.agents) = 1
    /\ backend.clients = 2
    /\ last = [op |-> "refresh_models", fetches |-> 1]
    /\ cache_data[llama_stack_url].age = 0
    /\ cache_resource[llama_stack_url]._client.client = 2
    /\ cache_resource[llama_stack_url]._agent = None

-----------------------------------------------------------------------------
(* Properties of concurrent script threads (SpecThreads).                  *)

\* C19: the lazy construction is single-flight.  When two threads make
\* their first call of client, get_agent or get_session_id on the same
\* service, then under every interleaving the backend constructs at most
\* one client, one agent and one session, and two threads that have called
\* the same method have got the same handle.
C19_SingleFlight ==
    /\ backend.clients <= 1
    /\ Cardinality(backend.agents) <= 1
    /\ backend.sessions <= 1
    /\ \A t, u \in Threads :
           (/\ At(t, "done")
            /\ At(u, "done")
            /\ threads[t].op = threads[u].op) => threads[t].value = threads[u].value

\* both threads have found _agent to be None: two agents exist, of two
\* clients, and the two calls of get_agent have returned different agents
C19_TwoAgentsConstructed ==
    /\ \A t \in Threads : At(t, "done") /\ threads[t].op = "get_agent"
    /\ threads[1].model_id = threads[2].model_id
    /\ threads[1].value # threads[2].value
    /\ Cardinality(backend.agents) = 2
    /\ backend.clients = 2
    /\ TheService._agent = threads[2].value

-----------------------------------------------------------------------------
(* Properties of concurrent browser sessions (SpecBrowsers).               *)

\* C20: conversations are isolated.  With two browser sessions on the same
\* base URL, no step of one session (a message, Reset Agent, Clear Chat,
\* Refresh Models, a run of the script) changes the transcript of the other
\* session, or the agent and the backend session id that the conversation
\* of the other session uses: they remain the ones cached for its next
\* message.
C20_ConversationsIsolated ==
    [][ \A b \in Browsers \ {last'.by} :
          /\ TranscriptOf(b)' = TranscriptOf(b)
          /\ browsers[b].session_id # None =>
                 /\ llama_stack_url \in DOMAIN cache_resource'
                 /\ cache_resource'[llama_stack_url]._agent = browsers[b].agent
                 /\ cache_resource'[llama_stack_url]._session_id
                        = browsers[b].session_id ]_vars

\* session 1 has sent a message that was answered in backend session 1, and
\* session 2 has used Reset Agent: the transcript of session 1 still shows
\* the conversation, and the service has no session id
C20_ResetByOtherSession ==
    /\ last = [op |-> "reset_agent", by |-> 2]
    /\ Len(TranscriptOf(1)) = 2
    /\ TranscriptOf(1)[2] = AssistantMessage(Extract(AnsweredTurn))
    /\ browsers[1].session_id = SessionIdString(1)
    /\ cache_resource[llama_stack_url]._session_id = None

\* the part of C20 that holds: a step of one session leaves the
\* st.session_state of the other session as it is
C20_TranscriptsIsolated ==
    [][ \A b \in Browsers \ {last'.by} :
          browsers'[b].session_state = browsers[b].session_state ]_vars

----------------------------------------------------------------------------
(* Properties of the metadata of the result (SpecNorm).                    *)

\* the result has attribute name of the turn: the same value when the turn
\* has it, and no value (the key is absent, or None) when the turn has not
SameAsTurn(name) ==
    IF name \in DOMAIN turn
    THEN name \in DOMAIN turn_details /\ turn_details[name] = turn[name]
    ELSE name \in DOMAIN turn_details => turn_details[name] = None

\* C21: for every turn the backend returned, the status, created_at and
\* completed_at of the result are those of the turn (status "unknown" and
\* no timestamps only when the turn lacks them), also when the iteration
\* over the steps has failed part-way.
C21_MetadataFromRawTurn ==
    Extracted =>
        /\ turn_details.status = getattr(turn, "status", "unknown")
        /\ SameAsTurn("created_at")
        /\ SameAsTurn("completed_at")

\* a turn with status and both timestamps whose only step raises: the
\* result has the status of the turn and neither timestamp
C21_TimestampsLostOnFailure ==
    /\ Extracted
    /\ {"status", "created_at", "completed_at"} \subseteq DOMAIN turn
    /\ Len(StepsOf(turn)) = 1
    /\ Throws(turn.steps[1])
    /\ ~turn_details.success
    /\ turn_details.status = turn.status
    /\ "created_at" \notin DOMAIN turn_details
    /\ "completed_at" \notin DOMAIN turn_details

\* the part of C21 that holds: the status is always that of the turn, and
\* the timestamps are those of the turn when the extraction has succeeded
C21_MetadataOfSuccessfulTurn ==
    Extracted =>
        /\ turn_details.status = getattr(turn, "status", "unknown")
        /\ turn_details.success =>
               SameAsTurn("created_at") /\ SameAsTurn("completed_at")

----------------------------------------------------------------------------
(* Properties of the backend calls of one message (SpecService).           *)

\* C22: a call of send_message_with_turn_details invokes agent.create_turn
\* at most once, as its last backend call, on the agent and with the session
\* id that the service has cached; when the agent or the session could not
\* be constructed it does not invoke create_turn, and the result has
\* success = false and empty reasoning_steps and tool_usage.
C22_CreateTurnOnceAfterAgentAndSession ==
    last.op = "send_message_with_turn_details" =>
        LET n == Count(last.log, "create_turn")
            constructed == TheService._agent # None /\ TheService._session_id # None
        IN  /\ n <= 1
            /\ n = 1 <=> constructed
            /\ n = 1 <=> last.create_turn # None
            /\ n = 1 =>
                 /\ last.log[Len(last.log)] = "create_turn"
                 /\ last.create_turn.agent = TheService._agent
                 /\ last.create_turn.session_id = TheService._session_id
            /\ n = 0 =>
                 /\ ~last.value.success
                 /\ last.value.reasoning_steps = <<>>
                 /\ last.value.tool_usage = <<>>

\* the first message of a service: client, agent and session are constructed
\* and then create_turn is called once, on agent 1 with session 1
C22_Witness ==
    /\ last.op = "send_message_with_turn_details"
    /\ last.log = <<"LlamaStackClient", "ReActAgent", "create_session", "create_turn">>
    /\ last.create_turn = [agent |-> TheService._agent,
                           session_id |-> SessionIdString(1)]
    /\ TheService._agent.agent = 1
    /\ last.value.success

\* the session could not be created: create_turn was not called
C22_NoTurnWithoutSession ==
    /\ last.op = "send_message_with_turn_details"
    /\ last.log = <<"create_session">>
    /\ TheService._agent # None
    /\ TheService._session_id = None
    /\ last.create_turn = None
    /\ ~last.value.success

----------------------------------------------------------------------------
(* Properties of tool_usage while the steps are processed (SpecNorm).      *)

\* entry after is entry before, possibly progressed: the same tool_name,
\* call_id and arguments (or none on both sides), and completed stays
\* completed
Progressed(before, after) ==
    /\ after.tool_name = before.tool_name
    /\ after.call_id = before.call_id
    /\ ("arguments" \in DOMAIN after) = ("arguments" \in DOMAIN before)
    /\ "arguments" \in DOMAIN before => after.arguments = before.arguments
    /\ before.status = "completed" => after.status = "completed"

\* C23: while the steps of one turn are processed, tool_usage only grows and
\* its entries only progress: every entry stays at its position with its
\* tool_name, call_id and arguments, and a completed entry stays completed.
C23_ToolUsageOnlyProgresses ==
    [][ pc # "idle" =>
          /\ Len(turn_details'.tool_usage) >= Len(turn_details.tool_usage)
          /\ \A k \in 1..Len(turn_details.tool_usage) :
                 Progressed(turn_details.tool_usage[k],
                            turn_details'.tool_usage[k]) ]_vars

\* two calls were requested by one inference step, and the responses of the
\* next step have completed both entries in place: the first keeps the
\* arguments of its call
C23_Witness ==
    /\ pc = "responses"
    /\ j = 2
    /\ Len(turn_details.tool_usage) = 2
    /\ turn_details.tool_usage[1] =
           [tool_name |-> "websearch", arguments |-> TC1.arguments,
            call_id |-> "c1", step_id |-> "sY", status |-> "completed",
            output |-> "out1"]
    /\ turn_details.tool_usage[2].status = "completed"
    /\ turn_details.tool_usage[2].tool_name = "calc"

----------------------------------------------------------------------------
(* Properties of the roles in the transcript (SpecInterrupts).             *)

\* the messages are user, assistant, user, assistant, ...
Alternates(messages) ==
    /\ Len(messages) % 2 = 0
    /\ \A k \in 1..Len(messages) :
           messages[k].role = IF k % 2 = 1 THEN "user" ELSE "assistant"

\* C24: between two user actions the transcript alternates roles, starting
\* with user and ending with assistant, and a step appends a message only
\* when the model list is not empty and a model is selected.
C24_TranscriptAlternates ==
    /\ [](pc = "idle" => Alternates(Transcript))
    /\ [][ Len(Transcript') > Len(Transcript) =>
               available_models' # <<>> /\ model_name' # None ]_vars

\* a widget was used while the first message waited for its answer: the
\* script has run again, no run is under way, and the transcript is the
\* user message alone
C24_UserMessageWithoutAnswer ==
    /\ pc = "idle"
    /\ last.op = "script"
    /\ Transcript = <<[role |-> "user", content |-> Prompt]>>

----------------------------------------------------------------------------
(* Properties of the model list and the URL field (SpecUrls).              *)

\* the names the page shows for the list of the server at url
ListedAt(url) ==
    IF script = LlamaStackPage
    THEN ExtractModels(ModelsAt(url))
    ELSE get_ollama_models(TagsAt(url))

\* C25: the model list offered to the user is the list of the server at the
\* URL the field holds: after any run of the script, and so after a change
\* of the URL field within the 30 seconds of the cache, the list is not one
\* that was fetched from another URL.
C25_ModelListOfConfiguredUrl ==
    last # NoCall => available_models = ListedAt(llama_stack_url)

\* on the Ollama page the URL field was changed just after the list was
\* fetched: the page still offers the list of the server at the first URL
C25_ListOfPreviousUrl ==
    /\ script = OllamaPage
    /\ last.op = "url"
    /\ llama_stack_url = OtherOllamaUrl
    /\ cache_data[OllamaKey].age = 0
    /\ available_models = <<"m1", "m2">>
    /\ ListedAt(llama_stack_url) = <<"m2">>

\* the part of C25 that holds: on the page of streamlit_llamastack/app.py
\* the list is cached by URL, and is always the one of the URL in the field
C25_LlamaStackListOfConfiguredUrl ==
    (script = LlamaStackPage /\ last # NoCall) =>
        available_models = ListedAt(llama_stack_url)

=============================================================================
